---- MODULE Spec2Model ----
(***************************************************************************)
(* Model of the adaptive form-filling control loop of                      *)
(* src/agent_deploy/llm_apply_o1_login.py: fill_fields_iteratively and the *)
(* registered actions it dispatches (input_text_with_retry,                *)
(* custom_select_dropdown_option, upload_resume_file), with the field      *)
(* locator find_highlight_index_for_field; run_job_application around the  *)
(* loop, with the submission scan and the release of the browser; and the  *)
(* login actions get_site_login_credentials and perform_login_flow.  Also  *)
(* process_application of src/agent_deploy/worker.py, which calls          *)
(* run_job_application and records the status, and process_crawl_results   *)
(* of src/job_crawler/crawler_service.py, which stores the crawled jobs.   *)
(*                                                                         *)
(* Python strings are sequences of one-character strings, so that lower(), *)
(* strip(), slicing and the substring test `in` are computed.  An Optional *)
(* value is <<>> (None) or <<v>>.  The decision agent, the browser and the *)
(* page are collaborators: what they return is drawn from small sets.      *)
(***************************************************************************)
EXTENDS Integers, Sequences, FiniteSets, TLC

(***************************************************************************)
(* Strings                                                                 *)
(***************************************************************************)
Upper == <<"A","B","C","D","E","F","G","H","I","J","K","L","M",
           "N","O","P","Q","R","S","T","U","V","W","X","Y","Z">>

LowerOf == <<"a","b","c","d","e","f","g","h","i","j","k","l","m",
             "n","o","p","q","r","s","t","u","v","w","x","y","z">>

\* the upper-case letters, and the lower-case letter of each
UpperSet == {Upper[k] : k \in DOMAIN Upper}

LowerFn == [c \in UpperSet |-> LowerOf[CHOOSE k \in DOMAIN Upper : Upper[k] = c]]

\* str.lower() on one character
LowerChar(c) == IF c \in UpperSet THEN LowerFn[c] ELSE c

\* str.lower()
Lower(s) == [k \in DOMAIN s |-> LowerChar(s[k])]

\* the Python test `sub in s` on strings
Contains(sub, s) ==
    \E k \in 0..(Len(s) - Len(sub)) : SubSeq(s, k + 1, k + Len(sub)) = sub

IsSpace(c) == c \in {" ", "\t", "\n"}

RECURSIVE LStrip(_)
LStrip(s) == IF s # <<>> /\ IsSpace(Head(s)) THEN LStrip(Tail(s)) ELSE s

RECURSIVE RStrip(_)
RStrip(s) ==
    IF s # <<>> /\ IsSpace(s[Len(s)]) THEN RStrip(SubSeq(s, 1, Len(s) - 1)) ELSE s

\* str.strip()
Strip(s) == RStrip(LStrip(s))

\* the slice s[:n]
Prefix(s, n) == SubSeq(s, 1, IF n < Len(s) THEN n ELSE Len(s))

None == <<>>
Some(v) == <<v>>

(***************************************************************************)
(* Program constants                                                       *)
(***************************************************************************)
max_rounds == 25

default_max_retries == 3

max_attempts == 30

\* the slice bound of first_chars = text[:3]
first_chars_len == 3

(***************************************************************************)
(* Bounds of the model                                                     *)
(***************************************************************************)
\* longest unfilled_fields list a Discover response carries
MaxFields == 2

\* largest max_retries a direct call of input_text_with_retry passes
MaxRetriesArg == 4

\* calls of input_text_with_retry the agent makes itself on one field
MaxCalls == 2

\* file inputs a page carries
MaxInputs == 2

\* pages of one crawl result
MaxPages == 2

\* calls of process_crawl_results made on the same crawl result
MaxPasses == 3

(***************************************************************************)
(* Data: field records, element index, candidate, Discover responses       *)
(***************************************************************************)
\* a key that a JSON object does not carry
NoKey == <<"<", "n", "o", "k", "e", "y", ">">>

S_text == <<"t","e","x","t">>
S_textarea == <<"t","e","x","t","a","r","e","a">>
S_select == <<"s","e","l","e","c","t">>
S_select_one == <<"s","e","l","e","c","t","-","o","n","e">>
S_checkbox == <<"c","h","e","c","k","b","o","x">>
S_radio == <<"r","a","d","i","o">>
S_file == <<"f","i","l","e">>

\* the field records of the form, in document order (RequiredField)
F_name == [id |-> <<"n","1">>, type |-> <<"T","e","x","t">>,
           label |-> <<"N","a","m","e">>]
F_select == [id |-> <<"s","1">>, type |-> S_select,
             label |-> <<"O","k">>]
F_check == [id |-> <<"c","1">>, type |-> S_checkbox,
            label |-> <<"A","g","r","e","e">>]
F_file == [id |-> <<"r","1">>, type |-> S_file, label |-> <<"C","V">>]
F_date == [id |-> <<"d","1">>, type |-> <<"d","a","t","e">>,
           label |-> <<"D","a","y">>]
F_noid == [id |-> NoKey, type |-> S_text, label |-> <<"N","a","m","e">>]

\* a required checkbox behind an overlay: no selector map shows it
F_hidden == [id |-> <<"h","1">>, type |-> S_checkbox,
             label |-> <<"T","e","r","m","s">>]

\* the fields of the one-field forms the dispatcher is followed on
D_email == [id |-> <<"e","m","a","i","l","-","1">>, type |-> S_text, label |-> <<"E","m","a","i","l"," ","A","d","d","r","e","s","s">>]
D_phone == [id |-> <<"q","7">>, type |-> S_textarea, label |-> <<"P","H","O","N","E">>]
D_addr == [id |-> <<"q","7">>, type |-> <<"T","E","X","T">>, label |-> <<"H","o","m","e"," ","a","d","d","r","e","s","s">>]
D_note == [id |-> <<"q","7">>, type |-> S_text, label |-> <<"N","o","t","e","s">>]
D_both == [id |-> <<"q","7">>, type |-> S_text, label |-> <<"E","m","a","i","l"," ","o","r"," ","n","a","m","e">>]
D_nolabel == [id |-> <<"e","m","a","i","l","-","1">>, type |-> S_text, label |-> NoKey]
D_hear == [id |-> <<"q","7">>, type |-> S_select_one,
           label |-> <<"H","o","w"," ","d","i","d"," ","y","o","u"," ","h","e","a","r"," ","a","b","o","u","t"," ","u","s","?">>]
D_device == [id |-> <<"q","7">>, type |-> S_select, label |-> <<"P","h","o","n","e"," ","D","e","v","i","c","e">>]
D_color == [id |-> <<"q","7">>, type |-> <<"S","e","l","e","c","t">>, label |-> <<"F","a","v","o","r","i","t","e"," ","c","o","l","o","r">>]
D_radio == [id |-> <<"q","7">>, type |-> <<"R","A","D","I","O">>, label |-> <<"G","e","n","d","e","r">>]
D_number == [id |-> <<"q","7">>, type |-> <<"n","u","m","b","e","r">>, label |-> <<"A","g","e">>]

DispatchFields ==
    {F_name, F_select, F_check, F_file, F_date, D_email, D_phone, D_addr,
     D_note, D_both, D_nolabel, D_hear, D_device, D_color, D_radio, D_number}

FormFields == <<F_name, F_select, F_check, F_file, F_date, F_noid>>

\* the order-preserving selections of n positions out of 1..m
RECURSIVE Picks(_, _)
Picks(m, n) ==
    IF n = 0 THEN {<<>>}
    ELSE IF m < n THEN {}
    ELSE Picks(m - 1, n) \cup {Append(p, m) : p \in Picks(m - 1, n - 1)}

\* the non-empty unfilled_fields lists a Discover response may carry
FieldLists ==
    UNION {{[k \in 1..n |-> FormFields[p[k]]] : p \in Picks(Len(FormFields), n)}
           : n \in 1..MaxFields}

\* ElementIndexEntry: one entry of selector_map
Entry(i, x, t) == [idx |-> i, xpath |-> x, text |-> t]

\* the selector maps the browser may report, each in iteration order
SM_ids == << Entry(1, <<"/","N","1">>, <<>>),
             Entry(2, <<"/","s","1">>, <<>>),
             Entry(3, <<"/","c","1">>, <<>>),
             Entry(4, <<"/","r","1">>, <<>>),
             Entry(5, <<"/","d","1">>, <<>>) >>

SM_labels == << Entry(6, <<"/","b">>, <<"S","u","b","m","i","t">>),
                Entry(1, <<"/","a">>, <<"F","u","l","l"," ","N","a","m","e">>) >>

SM_form == << Entry(8, <<"/","Q","7">>, <<"Y","o","u","r"," ","E","M","A","I","L"," ","a","d","d","r","e","s","s">>),
              Entry(7, <<"/","e","m","a","i","l","-","1">>, <<>>) >>

SM_empty == << >>

SelectorMaps == {SM_ids, SM_labels, SM_form, SM_empty}

\* `index in selector_map`
InMap(sm, i) == \E k \in DOMAIN sm : sm[k].idx = i

\* selector_map[index]
MapGet(sm, i) == sm[CHOOSE k \in DOMAIN sm : sm[k].idx = i]

\* candidate_profile.model_dump()
Candidate(path) ==
    [name |-> <<"J","o">>, email |-> <<"j","a","n","e","@","x",".","c","o","m">>, phone |-> <<"5","5">>,
     address |-> <<"R","d">>, resume_file_path |-> path]

Candidates == {Candidate(None), Candidate(Some(<<"c","v">>))}

\* text with a blank put after its first character
InnerBlank(text) ==
    IF Len(text) < 2 THEN text ELSE <<Head(text), " ">> \o Tail(text)

\* what el.value may read back after typing text
ReadBacks(text) ==
    {text, Append(text, " "), <<" ">> \o text, InnerBlank(text), <<>>, <<"x">>}

\* the ActionResult of get_unfilled_required_fields: error, and extracted_content
\* as empty, text that is no JSON, or the JSON value it encodes
Response(err, empty, isjson, kind, haskey, fields) ==
    [error |-> err, empty |-> empty, is_json |-> isjson, kind |-> kind,
     has_key |-> haskey, unfilled_fields |-> fields]

R_error == Response(TRUE, TRUE, FALSE, "none", FALSE, <<>>)
R_empty == Response(FALSE, TRUE, FALSE, "none", FALSE, <<>>)
R_garbage == Response(FALSE, FALSE, FALSE, "none", FALSE, <<>>)
R_array == Response(FALSE, FALSE, TRUE, "array", FALSE, <<>>)
R_nokey == Response(FALSE, FALSE, TRUE, "object", FALSE, <<>>)
R_nofields == Response(FALSE, FALSE, TRUE, "object", TRUE, <<>>)
R_fields(l) == Response(FALSE, FALSE, TRUE, "object", TRUE, l)

\* the lists of at most MaxFields records that carry the hidden field
HiddenLists ==
    UNION {{SubSeq(l, 1, k) \o <<F_hidden>> \o SubSeq(l, k + 1, Len(l)) :
               k \in 0..Len(l)}
           : l \in {m \in FieldLists \cup {<<>>} : Len(m) < MaxFields}}

\* the answers a query may give: any of rs, or, when a required field stays
\* hidden and so unfilled through the run, a list that carries it
Reported(h, rs) ==
    IF h = None THEN rs ELSE {R_fields(l) : l \in HiddenLists}

\* the selector maps final_state may carry, each in iteration order
FM_two == << Entry(1, <<"/","n">>, <<"N", "a", "m", "e">>),
             Entry(2, <<"/","a">>, <<"A", "p", "p", "l", "y", " ", "n", "o", "w">>),
             Entry(3, <<"/","s">>, <<"S", "U", "B", "M", "I", "T">>) >>

FM_one == << Entry(4, <<"/","f">>, <<"F", "i", "n", "i", "s", "h">>) >>

FM_none == << Entry(1, <<"/","n">>, <<"N", "a", "m", "e">>) >>

FinalMaps == {FM_two, FM_one, FM_none, SM_empty}

MalformedResponses == {R_error, R_empty, R_garbage, R_array, R_nokey, R_nofields}

Responses == MalformedResponses \cup {R_fields(l) : l \in FieldLists}

(***************************************************************************)
(* Pure parts of the code                                                  *)
(***************************************************************************)
\* find_highlight_index_for_field: the first entry, in iteration order, whose
\* xpath holds the id or whose text holds the label, both lower-cased
RECURSIVE FirstMatch(_, _, _, _)
FirstMatch(sm, k, field_id, label) ==
    IF k > Len(sm) THEN None
    ELSE IF \/ Contains(Lower(field_id), Lower(sm[k].xpath))
            \/ Contains(Lower(label), Lower(sm[k].text))
         THEN Some(sm[k].idx)
         ELSE FirstMatch(sm, k + 1, field_id, label)

\* mutant: the lowest index among the entries that match
find_highlight_index_lowest(sm, field_id, label) ==
    LET hits == {sm[k].idx : k \in {j \in DOMAIN sm :
                     \/ Contains(Lower(field_id), Lower(sm[j].xpath))
                     \/ Contains(Lower(label), Lower(sm[j].text))}} IN
    IF hits = {} THEN None
    ELSE Some(CHOOSE i \in hits : \A j \in hits : i <= j)

\* mutant: an empty label matches no entry
find_highlight_index_labelled(sm, field_id, label) ==
    LET hits == {k \in DOMAIN sm :
                   \/ Contains(Lower(field_id), Lower(sm[k].xpath))
                   \/ label # <<>> /\ Contains(Lower(label), Lower(sm[k].text))} IN
    IF hits = {} THEN None
    ELSE Some(sm[CHOOSE k \in hits : \A j \in hits : k <= j].idx)

find_highlight_index_for_field(sm, field_id, label) ==
    FirstMatch(sm, 1, field_id, label)

\* field_info["id"] and field_info["type"] raise KeyError on a missing key
HasRequiredKeys(f) == f.id # NoKey /\ f.type # NoKey

\* field_info.get("label", "")
LabelOf(f) == IF f.label = NoKey THEN <<>> ELSE f.label

\* mutant: a type the chain does not know is handled as text
Branch_default_text(ft) ==
    IF ft \in {S_select_one, S_select} THEN "select"
    ELSE IF ft \in {S_checkbox, S_radio} THEN "click"
    ELSE IF ft = S_file THEN "file"
    ELSE "text"

\* the branch of the dispatcher's if/elif chain taken for a lower-cased type
Branch(field_type) ==
    IF field_type \in {S_text, S_textarea} THEN "text"
    ELSE IF field_type \in {S_select_one, S_select} THEN "select"
    ELSE IF field_type \in {S_checkbox, S_radio} THEN "click"
    ELSE IF field_type = S_file THEN "file"
    ELSE "unsupported"

\* mutant: the address is looked for before the e-mail and the phone
TextFor_address_first(label, cand) ==
    IF Contains(<<"n","a","m","e">>, Lower(label)) THEN cand.name
    ELSE IF Contains(<<"a","d","d","r","e","s","s">>, Lower(label)) THEN cand.address
    ELSE IF Contains(<<"e","m","a","i","l">>, Lower(label)) THEN cand.email
    ELSE IF Contains(<<"p","h","o","n","e">>, Lower(label)) THEN cand.phone
    ELSE <<"L","o","r","e","m"," ","I","p","s","u","m">>

\* text_to_input, chosen from the label
TextFor(label, cand) ==
    IF Contains(<<"n","a","m","e">>, Lower(label)) THEN cand.name
    ELSE IF Contains(<<"e","m","a","i","l">>, Lower(label)) THEN cand.email
    ELSE IF Contains(<<"p","h","o","n","e">>, Lower(label)) THEN cand.phone
    ELSE IF Contains(<<"a","d","d","r","e","s","s">>, Lower(label)) THEN cand.address
    ELSE <<"L","o","r","e","m"," ","I","p","s","u","m">>

\* text_choice, chosen from the label
ChoiceFor(label) ==
    IF Contains(<<"h","o","w"," ","d","i","d"," ","y","o","u"," ","h","e","a","r">>,
                Lower(label))
    THEN <<"L","i","n","k","e","d","I","n">>
    ELSE IF Contains(<<"p","h","o","n","e"," ","d","e","v","i","c","e">>, Lower(label))
    THEN <<"M","o","b","i","l","e">>
    ELSE <<"Y","e","s">>

\* the words a submission control's text is searched for
SubmitWords == << <<"s", "u", "b", "m", "i", "t">>, <<"a", "p", "p", "l", "y">>, <<"s", "e", "n", "d">>, <<"c", "o", "m", "p", "l", "e", "t", "e">>, <<"f", "i", "n", "i", "s", "h">> >>

\* any(x in text_in_el for x in [...])
IsSubmitText(text_in_el) ==
    \E k \in DOMAIN SubmitWords : Contains(SubmitWords[k], text_in_el)

\* the index the scan of final_state.selector_map clicks: that of the first
\* entry from position k on, in iteration order, whose lower-cased text holds
\* one of the words
RECURSIVE FirstSubmit(_, _)
FirstSubmit(sm, k) ==
    IF k > Len(sm) THEN None
    ELSE IF IsSubmitText(Lower(sm[k].text)) THEN Some(sm[k].idx)
    ELSE FirstSubmit(sm, k + 1)

\* the last such entry
RECURSIVE LastSubmit(_, _)
LastSubmit(sm, k) ==
    IF k < 1 THEN None
    ELSE IF IsSubmitText(Lower(sm[k].text)) THEN Some(sm[k].idx)
    ELSE LastSubmit(sm, k - 1)

\* mutant: the scan goes on after a match, so that the last match is clicked
SubmitIndex_last(sm) == LastSubmit(sm, Len(sm))

\* the index clicked after the fill loop, or None
SubmitIndex(sm) == FirstSubmit(sm, 1)

\* mutant: a field that is not located ends the loop with an exception
AfterLocate_raises(hi) == IF hi = None THEN "raise" ELSE "dispatch"

\* mutant: the test lets one round too many through
WhileCond_le(rc) == rc <= max_rounds

\* mutant: the test gives up one round early
WhileCond_short(rc) == rc < max_rounds - 1

\* the while test of fill_fields_iteratively
WhileCond(rc) == rc < max_rounds

\* what the loop does with one Discover response: "break" leaves the loop,
\* "raise" is the AttributeError of .get on a JSON value that is no object,
\* "fields" goes on to the for loop
DiscoverOutcome(r) ==
    IF r.error THEN "break"
    ELSE IF r.empty THEN "break"
    ELSE IF ~r.is_json THEN "break"
    ELSE IF r.kind # "object" THEN "raise"
    ELSE IF ~r.has_key \/ r.unfilled_fields = <<>> THEN "break"
    ELSE "fields"

\* mutant: the read-back is compared as it is
ReadBackMatches_exact(typed_value, text) == typed_value = text

\* typed_value.strip() == text.strip()
ReadBackMatches(typed_value, text) == Strip(typed_value) = Strip(text)

\* the keyboard stage's test of the highlighted option
OptionMatches(current_text, text) ==
    /\ current_text # None
    /\ current_text[1] # <<>>
    /\ Contains(Lower(text), Lower(current_text[1]))

\* mutant: the keyboard stage types the whole target
FirstChars_whole(t) == t

\* first_chars = text[:3]
FirstChars(t) == Prefix(t, first_chars_len)

\* mutant: ArrowDown and ArrowUp take turns
ArrowKey_in_turns(a) == IF a % 2 = 0 THEN "ArrowDown" ELSE "ArrowUp"

\* the arrow key of one polling iteration
ArrowKey(attempt) == IF 2 * attempt < max_attempts THEN "ArrowDown" ELSE "ArrowUp"

(***************************************************************************)
(* State                                                                   *)
(***************************************************************************)
VARIABLES
    pc,                    \* where control is
    candidate_global_data, \* the module-level candidate record
    round_count,           \* fill_fields_iteratively: rounds started
    unfilled_list,         \* the list of the round being handled
    pos,                   \* position in unfilled_list of the field at hand
    highlight_index,       \* Optional index the locator returned
    index,                 \* the index argument of the action being run
    text,                  \* the text argument of the action being run
    max_retries,           \* the max_retries argument of input_text_with_retry
    dom_element,           \* Optional selector_map entry held by the action
    attempt,               \* loop counter of the retry loop / the polling loop
    res,                   \* "none", or the ActionResult: "ok" / "err"
    exc,                   \* "none", or where the exception that left
                           \* fill_fields_iteratively was raised
    \* ---- history of the run, read by the properties only ----
    queries,               \* Discover queries issued
    last_resp,             \* Optional last Discover response
    no_progress_repeat,    \* the last response repeated its predecessor's list
                           \* and no fill reported success in between
    filled_in_round,       \* a fill reported success in the current round
    handled,               \* positions of the list handled in this round
    trace,                 \* what was done for the field at hand
    stages,                \* fallback stages attempted by the custom chain
    stage_ok,              \* the stage that reported success, or "none"
    tries,                 \* attempts started by input_text_with_retry
    matched,               \* some attempt's read-back matched
    hi_fresh,              \* no mutating action since highlight_index was read
    de_fresh,              \* no mutating action since dom_element was read
    stale_use,             \* the step just taken addressed an element by a stale entry
    \* ---- the text field input_text_with_retry addresses ----
    el_value,              \* el.value of the field
    typed_value,           \* Optional read-back of the attempt just made
    calls,                 \* calls of the action the agent has made itself
    held,                  \* the field held the text when the call began
    \* ---- the keyboard stage of custom_select_dropdown_option ----
    \* (recorded when watch)
    first_chars,           \* Optional text[:3] the stage has typed
    keys,                  \* the keys the stage has pressed, in order
    current_text,          \* Optional text of the read that Enter followed
    final_stage,           \* Optional record of the final stage: whether the
                           \* page had an option containing the target, and
                           \* whether a call of the stage raised
    \* ---- the calls a single field's handling makes, recorded when watch ----
    watch,                 \* the calls of the field at hand are recorded
    selector_map,          \* Optional selector map the last call read
    uploads,               \* the calls upload_resume_file made, in order
    field_clicks,          \* click_element calls the dispatcher has made
    \* ---- run_job_application ----
    agent,                 \* the local `agent` is set (not None)
    run_exc,               \* "none", or where the exception that leaves
                           \* run_job_application was raised
    final_state,           \* Optional selector map of final_state
    final_reads,           \* reads of the element index after the fill loop
    fill_end,              \* how fill_fields_iteratively returned; "none"
                           \* while it has not
    clicks,                \* indices clicked after the fill loop
    context_closed,        \* agent.browser_context.close() has returned
    browser_closed,        \* browser.close() has returned
    hidden_field,          \* Optional id of a required field that no
                           \* selector map of the run ever shows
    \* ---- worker.py: process_application ----
    status_log,            \* the 'status' values written to the application
                           \* document, in order
    cv,                    \* the cv argument
    cv_file_url,           \* the cv_file_url argument
    worker_exc,            \* "none", or where the exception caught by
                           \* process_application was raised
    \* ---- crawler_service.py: process_crawl_results ----
    jobs,                  \* the documents of the 'jobs' collection
    crawl_status,          \* crawl_status['data']: the pages of the crawl
    source_url,            \* the source_url argument of the call at hand
    page_no,               \* pages of the call at hand gone through
    passes,                \* calls of process_crawl_results begun
    pass_clean,            \* no read or write of the call at hand has raised
    clean_done,            \* some call has ended with none of its reads and
                           \* writes having raised
    \* ---- perform_login_flow / get_site_login_credentials ----
    login_credentials_data, \* the module-level credentials map
    site_name,             \* the site_name argument of the action called
    site_name_lower,       \* the normalised site name
    login_step,            \* page calls of the flow made after the navigation
    username,              \* creds.get("username", "")
    password,              \* creds.get("password", "")
    page_actions,          \* the calls made on the browser and the page
    log,                   \* the messages passed to logger.info
    results                \* the ActionResults returned to the agent

vars == <<pc, candidate_global_data, round_count, unfilled_list, pos,
          highlight_index, index, text, max_retries, dom_element, attempt, res,
          exc, queries, last_resp, no_progress_repeat, filled_in_round, handled,
          trace, stages, stage_ok, tries, matched, hi_fresh, de_fresh, stale_use,
          el_value, typed_value, calls, held,
          first_chars, keys, current_text, final_stage, watch, selector_map,
          uploads, field_clicks,
          agent, run_exc, final_state, final_reads, fill_end, clicks, context_closed,
          browser_closed, hidden_field,
          status_log, cv, cv_file_url, worker_exc,
          jobs, crawl_status, source_url, page_no, passes, pass_clean,
          clean_done,
          login_credentials_data, site_name, site_name_lower, login_step,
          username, password, page_actions, log, results>>

field_vars == <<el_value, typed_value, calls, held>>

key_vars == <<first_chars, keys, current_text, final_stage>>

watch_vars == <<watch, selector_map, uploads, field_clicks>>

\* the variables of the services around the agent
crawl_vars == <<jobs, crawl_status, source_url, page_no, passes, pass_clean,
                clean_done>>

service_vars == <<status_log, cv, cv_file_url, worker_exc, crawl_vars>>

run_vars == <<agent, run_exc, final_state, final_reads, fill_end, clicks, context_closed,
              browser_closed, hidden_field, service_vars>>

login_vars == <<login_credentials_data, site_name, site_name_lower,
                login_step, username, password, page_actions, log, results>>

loop_vars == <<round_count, unfilled_list, pos, queries, last_resp,
               no_progress_repeat, handled>>

call_vars == <<index, text, max_retries, dom_element, attempt, res, stages,
               stage_ok, tries, matched>>

\* an awaited collaborator call either returns or raises
Calls == {"returns", "raises"}

\* the locals of a call are dead once it has returned: they are put back to
\* their initial values, so that dead values do not tell states apart
CallReset ==
    /\ index' = 0
    /\ text' = <<>>
    /\ max_retries' = default_max_retries
    /\ dom_element' = None
    /\ attempt' = 0
    /\ res' = "none"
    /\ stages' = <<>>
    /\ stage_ok' = "none"
    /\ tries' = 0
    /\ matched' = FALSE

\* the record of the keyboard stage is dead with the call
KeyReset ==
    /\ first_chars' = None
    /\ keys' = <<>>
    /\ current_text' = None
    /\ final_stage' = None

\* a click, type, select or navigation invalidates every snapshot held
Mutate == hi_fresh' = FALSE /\ de_fresh' = FALSE

LoopInit ==
    /\ round_count = 0
    /\ unfilled_list = <<>>
    /\ pos = 0
    /\ highlight_index = None
    /\ exc = "none"
    /\ queries = 0
    /\ last_resp = None
    /\ no_progress_repeat = FALSE
    /\ filled_in_round = FALSE
    /\ handled = <<>>
    /\ trace = <<>>

CallInit ==
    /\ index = 0
    /\ text = <<>>
    /\ max_retries = default_max_retries
    /\ dom_element = None
    /\ attempt = 0
    /\ res = "none"
    /\ stages = <<>>
    /\ stage_ok = "none"
    /\ tries = 0
    /\ matched = FALSE
    /\ hi_fresh = TRUE
    /\ de_fresh = TRUE
    /\ stale_use = FALSE

\* no key pressed; nothing recorded for a field
KeyInit ==
    /\ first_chars = None
    /\ keys = <<>>
    /\ current_text = None
    /\ final_stage = None

WatchInit ==
    /\ selector_map = None
    /\ uploads = <<>>
    /\ field_clicks = 0

\* no call of input_text_with_retry has touched a field yet
FieldInit ==
    /\ el_value = <<>>
    /\ typed_value = None
    /\ calls = 0
    /\ held = FALSE
    /\ KeyInit
    /\ WatchInit

\* the locals of run_job_application at its entry: agent = None, nothing
\* read, clicked or closed
\* the crawler is not part of the run
CrawlIdle ==
    /\ jobs = {}
    /\ crawl_status = <<>>
    /\ source_url = <<>>
    /\ page_no = 0
    /\ passes = 0
    /\ pass_clean = TRUE
    /\ clean_done = FALSE

\* no service is running
ServiceInit ==
    /\ status_log = <<>>
    /\ cv = None
    /\ cv_file_url = <<>>
    /\ worker_exc = "none"
    /\ CrawlIdle

RunInit ==
    /\ agent = FALSE
    /\ run_exc = "none"
    /\ final_state = None
    /\ final_reads = 0
    /\ fill_end = "none"
    /\ clicks = <<>>
    /\ context_closed = FALSE
    /\ browser_closed = FALSE
    /\ ServiceInit

\* no login action has been called: the credentials map as the module
\* defines it (empty), nothing logged, nothing returned
LoginInit ==
    /\ login_credentials_data = <<>>
    /\ site_name = <<>>
    /\ site_name_lower = <<>>
    /\ login_step = 0
    /\ username = <<>>
    /\ password = <<>>
    /\ page_actions = <<>>
    /\ log = <<>>
    /\ results = <<>>

\* entry of fill_fields_iteratively
Init ==
    /\ pc = "while"
    /\ candidate_global_data \in Candidates
    /\ LoopInit
    /\ CallInit
    /\ FieldInit
    /\ watch = FALSE
    /\ RunInit
    /\ hidden_field = None
    /\ LoginInit

(***************************************************************************)
(* fill_fields_iteratively                                                 *)
(***************************************************************************)
\* the round's get_unfilled_required_fields query returns r
DiscoverFrom(rs) ==
    /\ pc = "while"
    /\ WhileCond(round_count)
    /\ round_count' = round_count + 1
    /\ queries' = queries + 1
    /\ \E r \in rs :
         /\ last_resp' = Some(r)
         /\ IF DiscoverOutcome(r) = "fields"
            THEN /\ unfilled_list' = r.unfilled_fields
                 /\ no_progress_repeat' = /\ round_count >= 1
                                          /\ r.unfilled_fields = unfilled_list
                                          /\ ~filled_in_round
                 /\ pc' = "for"
                 /\ exc' = exc
            ELSE /\ unfilled_list' = unfilled_list
                 /\ no_progress_repeat' = FALSE
                 /\ pc' = IF DiscoverOutcome(r) = "raise" THEN "raise" ELSE "return"
                 /\ exc' = IF DiscoverOutcome(r) = "raise" THEN "AttributeError" ELSE exc
    /\ pos' = 0
    /\ handled' = <<>>
    /\ trace' = <<>>
    /\ filled_in_round' = FALSE
    /\ stale_use' = FALSE
    /\ UNCHANGED <<candidate_global_data, field_vars, key_vars, watch_vars, run_vars, login_vars, highlight_index, call_vars,
                   hi_fresh, de_fresh>>

\* the query answers with any response the form at hand can give
Discover == DiscoverFrom(Reported(hidden_field, Responses))

\* the query reports the list of the round before once more
DiscoverSame == DiscoverFrom({R_fields(unfilled_list)})

\* the query itself raises
DiscoverRaises ==
    /\ pc = "while"
    /\ WhileCond(round_count)
    /\ round_count' = round_count + 1
    /\ queries' = queries + 1
    /\ pc' = "raise"
    /\ exc' = "Discover"
    /\ stale_use' = FALSE
    /\ UNCHANGED <<candidate_global_data, field_vars, key_vars, watch_vars, run_vars, login_vars, unfilled_list, pos, last_resp,
                   no_progress_repeat, handled, highlight_index, call_vars,
                   filled_in_round, trace, hi_fresh, de_fresh>>

\* the while test fails: the round budget is spent
Exhausted ==
    /\ pc = "while"
    /\ ~WhileCond(round_count)
    /\ pc' = "return"
    /\ stale_use' = FALSE
    /\ UNCHANGED <<candidate_global_data, field_vars, key_vars, watch_vars, run_vars, login_vars, loop_vars, highlight_index, call_vars,
                   exc, filled_in_round, trace, hi_fresh, de_fresh>>

\* mutant: track_form_changes is called for a field that was not located too
AfterLocate_tracks(hi) == IF hi = None THEN "track" ELSE "dispatch"

\* where the for loop goes when the locator returned hi
AfterLocate(hi) == IF hi = None THEN "for" ELSE "dispatch"

\* mutant: a field that was not located is looked for again
Advance_retry(p, hi) == IF hi = None THEN p ELSE p + 1

\* the position the for loop has reached once the field after position p
\* has been looked for, with result hi
Advance(p, hi) == p + 1

\* mutant: the element index is read once per round, before its first field
ReadsAnew_per_round(was) == was /\ pos = 0

\* the snapshot find_highlight_index_for_field searches is the one its own
\* get_state() call has just returned, whatever was held before
ReadsAnew(was) == TRUE

\* the next field of the list: read its record, then locate it
LocateField ==
    /\ pc = "for"
    /\ pos < Len(unfilled_list)
    /\ handled' = Append(handled, pos + 1)
    /\ CallReset
    /\ LET field_info == unfilled_list[pos + 1] IN
         IF ~HasRequiredKeys(field_info)
         THEN /\ pc' = "raise"
              /\ exc' = "KeyError"
              /\ pos' = pos + 1
              /\ trace' = <<>>
              /\ UNCHANGED <<highlight_index, hi_fresh, selector_map>>
         ELSE \E call \in Calls, sm \in SelectorMaps :
                IF call = "raises"
                THEN /\ sm = SM_empty
                     /\ pc' = "raise"
                     /\ exc' = "Locator"
                     /\ pos' = pos + 1
                     /\ trace' = <<>>
                     /\ UNCHANGED <<highlight_index, hi_fresh, selector_map>>
                ELSE LET hi == find_highlight_index_for_field(
                                   sm, field_info.id, LabelOf(field_info)) IN
                     /\ Some(field_info.id) = hidden_field => hi = None
                     /\ highlight_index' = hi
                     /\ hi_fresh' = ReadsAnew(hi_fresh)
                     /\ selector_map' = IF watch THEN Some(sm) ELSE selector_map
                     /\ pc' = AfterLocate(hi)
                     /\ pos' = Advance(pos, hi)
                     /\ trace' = IF hi = None THEN <<"unlocated">> ELSE <<"located">>
                     /\ exc' = exc
    /\ stale_use' = FALSE
    /\ UNCHANGED <<candidate_global_data, field_vars, key_vars, watch, uploads, field_clicks, run_vars, login_vars, round_count, unfilled_list, queries,
                   last_resp, no_progress_repeat, filled_in_round, de_fresh>>

\* the for loop has run through the list
EndRound ==
    /\ pc = "for"
    /\ pos >= Len(unfilled_list)
    /\ pc' = "while"
    /\ trace' = <<>>
    /\ stale_use' = FALSE
    /\ selector_map' = None
    /\ uploads' = <<>>
    /\ UNCHANGED <<candidate_global_data, field_vars, key_vars, watch, field_clicks, run_vars, login_vars, loop_vars, highlight_index, call_vars,
                   exc, filled_in_round, hi_fresh, de_fresh>>

field_type == Lower(unfilled_list[pos].type)

label == LabelOf(unfilled_list[pos])

\* text / textarea: choose the text and call input_text_with_retry
DispatchText ==
    /\ pc = "dispatch"
    /\ Branch(field_type) = "text"
    /\ index' = highlight_index[1]
    /\ text' = TextFor(label, candidate_global_data)
    /\ max_retries' = default_max_retries
    /\ trace' = Append(trace, "input_text_with_retry")
    /\ pc' = "input_text"
    /\ stale_use' = FALSE
    /\ UNCHANGED <<candidate_global_data, field_vars, key_vars, watch_vars, run_vars, login_vars, loop_vars, highlight_index,
                   dom_element, attempt, res, stages, stage_ok, tries, matched,
                   exc, filled_in_round, hi_fresh, de_fresh>>

\* mutant: the fallback is called whatever the native action reported
AfterNative_always(r) == "custom_select"

\* where the select branch goes after the native action returned r
AfterNative(r) == IF r = "err" THEN "custom_select" ELSE "track"

\* select: the native select_dropdown_option action first
DispatchSelect ==
    /\ pc = "dispatch"
    /\ Branch(field_type) = "select"
    /\ index' = highlight_index[1]
    /\ text' = ChoiceFor(label)
    /\ stale_use' = ~hi_fresh
    /\ \E out \in {"ok", "err", "raises"}, mutated \in BOOLEAN :
         /\ out = "ok" => mutated
         /\ out = "raises" => ~mutated
         /\ IF mutated THEN Mutate ELSE UNCHANGED <<hi_fresh, de_fresh>>
         /\ IF out = "raises"
            THEN /\ pc' = "raise"
                 /\ exc' = "Action"
                 /\ res' = res
                 /\ trace' = Append(trace, "select_dropdown_option")
            ELSE /\ pc' = AfterNative(out)
                 /\ exc' = exc
                 /\ res' = out
                 /\ trace' = Append(Append(trace, "select_dropdown_option"),
                                    IF out = "ok" THEN "native_ok" ELSE "native_err")
    /\ UNCHANGED <<candidate_global_data, field_vars, key_vars, watch_vars, run_vars, login_vars, loop_vars, highlight_index,
                   max_retries, dom_element, attempt, stages, stage_ok, tries,
                   matched, filled_in_round>>

\* the fallback after the native action reported an error
CallCustomSelect ==
    /\ pc = "custom_select"
    /\ trace' = Append(trace, "custom_select_dropdown_option")
    /\ res' = "none"
    /\ pc' = "custom_enter"
    /\ stale_use' = FALSE
    /\ UNCHANGED <<candidate_global_data, field_vars, key_vars, watch_vars, run_vars, login_vars, loop_vars, highlight_index, index,
                   text, max_retries, dom_element, attempt, stages, stage_ok,
                   tries, matched, exc, filled_in_round, hi_fresh, de_fresh>>

\* mutant: a click that reported an error is made again
AfterClick_again(out) == IF out = "err" THEN "dispatch" ELSE "track"

\* where the click branch goes after click_element returned out: the result
\* is assigned and not looked at
AfterClick(out) == "track"

\* checkbox / radio: one click_element on the located index
DispatchClick ==
    /\ pc = "dispatch"
    /\ Branch(field_type) = "click"
    /\ index' = highlight_index[1]
    /\ stale_use' = ~hi_fresh
    /\ Mutate
    /\ trace' = Append(trace, "click_element")
    /\ field_clicks' = IF watch THEN field_clicks + 1 ELSE field_clicks
    /\ \E out \in {"ok", "err", "raises"} :
         IF out = "raises"
         THEN pc' = "raise" /\ exc' = "Action" /\ res' = res
         ELSE pc' = AfterClick(out) /\ exc' = exc /\ res' = out
    /\ UNCHANGED <<candidate_global_data, field_vars, key_vars, watch, selector_map, uploads, run_vars, login_vars, loop_vars, highlight_index, text,
                   max_retries, dom_element, attempt, stages, stage_ok, tries,
                   matched, filled_in_round>>

\* file: call upload_resume_file
DispatchFile ==
    /\ pc = "dispatch"
    /\ Branch(field_type) = "file"
    /\ index' = highlight_index[1]
    /\ trace' = Append(trace, "upload_resume_file")
    /\ pc' = "upload"
    /\ stale_use' = FALSE
    /\ UNCHANGED <<candidate_global_data, field_vars, key_vars, watch_vars, run_vars, login_vars, loop_vars, highlight_index, text,
                   max_retries, dom_element, attempt, res, stages, stage_ok,
                   tries, matched, exc, filled_in_round, hi_fresh, de_fresh>>

\* any other type: logged and skipped
DispatchUnsupported ==
    /\ pc = "dispatch"
    /\ Branch(field_type) = "unsupported"
    /\ trace' = Append(trace, "unsupported")
    /\ pc' = "track"
    /\ stale_use' = FALSE
    /\ UNCHANGED <<candidate_global_data, field_vars, key_vars, watch_vars, run_vars, login_vars, loop_vars, highlight_index, call_vars,
                   exc, filled_in_round, hi_fresh, de_fresh>>

\* mutant: a failed fill goes on to the next field at once
TracksAfter_unless_failed(r) == r # "err"

\* whether track_form_changes follows a branch that ended with result r
TracksAfter(r) == TRUE

\* the branch taken for the field is over: track_form_changes
Track ==
    /\ pc = "track"
    /\ filled_in_round' = (filled_in_round \/ res = "ok")
    /\ IF TracksAfter(res)
       THEN /\ trace' = Append(Append(trace, res), "track_form_changes")
            /\ \E call \in Calls :
                 IF call = "raises"
                 THEN pc' = "raise" /\ exc' = "Track"
                 ELSE pc' = "for" /\ exc' = exc
       ELSE /\ trace' = Append(trace, res)
            /\ pc' = "for"
            /\ exc' = exc
    /\ stale_use' = FALSE
    /\ CallReset
    /\ highlight_index' = None
    /\ hi_fresh' = TRUE
    /\ de_fresh' = TRUE
    /\ el_value' = <<>>
    /\ typed_value' = None
    /\ KeyReset
    /\ UNCHANGED <<candidate_global_data, calls, held, watch_vars, run_vars, login_vars,
                   loop_vars>>

(***************************************************************************)
(* input_text_with_retry                                                   *)
(***************************************************************************)
\* mutant: the retry loop runs once more than max_retries
RetryCond_le(a, mr) == a <= mr

\* the for test of the retry loop
RetryCond(a, mr) == a < mr

\* whether attempt a is the last one, where a failure returns at once
LastAttempt(a, mr) == a = mr - 1

\* the value of the field addressed is followed in the calls the agent makes
\* itself and where the calls of a single field are recorded; the fields of
\* the whole fill loop are not followed one by one
Watched == calls > 0 \/ watch

\* mutant: an index that is not in the selector map is tried like any other
AfterLookup_retries(found) == "retry_loop"

\* where input_text_with_retry goes after looking the index up: into the
\* retry loop when it is in the selector map, back to the caller otherwise
AfterLookup(found) == IF found THEN "retry_loop" ELSE "track"

\* entry: read the page and the selector map, look the index up; the
\* selector map is a local that is dead once the element is taken from it,
\* and is kept on record for the calls that return from the entry
InputTextEnter ==
    /\ pc = "input_text"
    /\ stale_use' = ~hi_fresh
    /\ \E call \in Calls, sm \in SelectorMaps :
         IF call = "raises"
         THEN /\ sm = SM_empty
              /\ pc' = "raise"
              /\ exc' = "Action"
              /\ selector_map' = None
              /\ UNCHANGED <<res, dom_element, de_fresh>>
         ELSE /\ exc' = exc
              /\ pc' = AfterLookup(InMap(sm, index))
              /\ IF ~InMap(sm, index)
                 THEN /\ res' = "err"
                      /\ selector_map' = IF Watched THEN Some(sm) ELSE None
                      /\ UNCHANGED <<dom_element, de_fresh>>
                 ELSE /\ dom_element' = Some(MapGet(sm, index))
                      /\ de_fresh' = TRUE
                      /\ res' = "none"
                      /\ selector_map' = None
    /\ attempt' = 0
    /\ tries' = 0
    /\ matched' = FALSE
    /\ UNCHANGED <<candidate_global_data, field_vars, key_vars, watch, uploads,
                   field_clicks, run_vars, login_vars, loop_vars, highlight_index, index,
                   text, max_retries, stages, stage_ok, filled_in_round, trace,
                   hi_fresh>>

\* one attempt: locate the element from dom_element, clear, type, read back
InputTextAttempt ==
    /\ pc = "retry_loop"
    /\ RetryCond(attempt, max_retries)
    /\ tries' = tries + 1
    /\ stale_use' = ~de_fresh
    /\ \E out \in {"not_found", "raises", "raises_after_clear", "typed"},
          v \in ReadBacks(text) :
         /\ out \in {"not_found", "raises"} => v = text
         /\ out = "raises_after_clear" => v \in {<<>>, text}
         /\ IF out \in {"typed", "raises_after_clear"}
            THEN Mutate /\ el_value' = IF Watched THEN v ELSE el_value
            ELSE UNCHANGED <<hi_fresh, de_fresh, el_value>>
         /\ typed_value' = IF Watched /\ out = "typed" THEN Some(v) ELSE None
         /\ IF out = "typed" /\ ReadBackMatches(v, text)
            THEN /\ matched' = TRUE
                 /\ res' = "ok"
                 /\ pc' = "track"
                 /\ attempt' = attempt
            ELSE /\ matched' = matched
                 /\ IF out # "typed" /\ LastAttempt(attempt, max_retries)
                    THEN /\ res' = "err"
                         /\ pc' = "track"
                         /\ attempt' = attempt
                    ELSE /\ res' = res
                         /\ pc' = pc
                         /\ attempt' = attempt + 1
    /\ UNCHANGED <<candidate_global_data, calls, held, key_vars, watch_vars, run_vars, login_vars,
                   loop_vars, highlight_index, index, text, max_retries,
                   dom_element, stages, stage_ok, exc, filled_in_round, trace>>

\* the retry loop ran out: the failure outcome after the loop
InputTextExhausted ==
    /\ pc = "retry_loop"
    /\ ~RetryCond(attempt, max_retries)
    /\ res' = "err"
    /\ pc' = "track"
    /\ stale_use' = FALSE
    /\ UNCHANGED <<candidate_global_data, field_vars, key_vars, watch_vars, run_vars, login_vars, loop_vars, highlight_index, index,
                   text, max_retries, dom_element, attempt, stages, stage_ok,
                   tries, matched, exc, filled_in_round, trace, hi_fresh,
                   de_fresh>>

(***************************************************************************)
(* custom_select_dropdown_option                                           *)
(***************************************************************************)
\* what the highlighted option may read as
OptionTexts(t) == {None, Some(<<>>), Some(<<"N","o">>), Some(Lower(t) \o <<"!">>)}

\* mutant: a control whose opening click raised is typed into all the same
AfterEntry_types_anyway(out) ==
    IF out = "opened" THEN "keyboard"
    ELSE IF out = "click_raises" THEN "typing" ELSE "track"

\* where the chain goes after its entry: on to the keyboard stage when the
\* control was opened, back to the caller with the error result otherwise
AfterEntry(out) == IF out = "opened" THEN "keyboard" ELSE "track"

\* entry: look the index up, scroll into view, locate, click to open; the
\* selector map is a local that is dead once the element is taken from it,
\* and is kept on record for the calls that return from the entry
CustomEnter ==
    /\ pc = "custom_enter"
    /\ stale_use' = ~hi_fresh
    /\ stages' = <<>>
    /\ stage_ok' = "none"
    /\ attempt' = 0
    /\ \E out \in {"raises", "no_index", "not_located", "click_raises", "opened"},
          sm \in SelectorMaps :
         /\ out = "no_index" <=> ~InMap(sm, index)
         /\ out = "raises" =>  sm = SM_ids
         /\ selector_map' = IF watch /\ out \notin {"raises", "opened"}
                            THEN Some(sm) ELSE None
         /\ IF out = "raises"
            THEN /\ pc' = "raise"
                 /\ exc' = "Action"
                 /\ UNCHANGED <<res, dom_element, hi_fresh, de_fresh>>
            ELSE IF out = "no_index"
            THEN /\ res' = "err"
                 /\ pc' = AfterEntry(out)
                 /\ UNCHANGED <<exc, dom_element, hi_fresh, de_fresh>>
            ELSE /\ dom_element' = Some(MapGet(sm, index))
                 /\ exc' = exc
                 /\ pc' = AfterEntry(out)
                 /\ IF out = "opened"
                    THEN /\ Mutate
                         /\ res' = "none"
                    ELSE /\ hi_fresh' = hi_fresh
                         /\ de_fresh' = TRUE
                         /\ res' = "err"
    /\ UNCHANGED <<candidate_global_data, field_vars, key_vars, watch, uploads,
                   field_clicks, run_vars, login_vars, loop_vars, highlight_index, index,
                   text, max_retries, tries, matched, filled_in_round, trace>>

\* mutant: a stage's success does not end the chain
AfterStage_goes_on(ok, next) == next

\* where the chain goes after a stage that did or did not report success
AfterStage(ok, next) == IF ok THEN "track" ELSE next

\* keyboard stage, first part: click for focus, type text[:3]; nothing counts
\* as typed when one of the two calls raises
KeyboardStart ==
    /\ pc = "keyboard"
    /\ stages' = Append(stages, "keyboard")
    /\ attempt' = 0
    /\ Mutate
    /\ \E call \in Calls :
         /\ pc' = IF call = "raises" THEN AfterStage(FALSE, "scroll") ELSE "keyboard_poll"
         /\ first_chars' = IF watch /\ call = "returns"
                           THEN Some(FirstChars(text)) ELSE None
    /\ keys' = <<>>
    /\ current_text' = None
    /\ final_stage' = None
    /\ stale_use' = FALSE
    /\ UNCHANGED <<candidate_global_data, field_vars, watch_vars, run_vars, login_vars, loop_vars, highlight_index, index,
                   text, max_retries, dom_element, res, stage_ok, tries, matched,
                   exc, filled_in_round, trace>>

\* mutant: the polling loop runs once more than max_attempts
PollCond_le(a) == a <= max_attempts

\* the for test of the polling loop
PollCond(a) == a < max_attempts

\* keyboard stage, one polling iteration: read the highlighted option, press
\* Enter on a match, an arrow key otherwise; a call that raises ends the
\* stage, and the record of its keys with it; the loop counter is dead once
\* the loop is left
KeyboardPoll ==
    /\ pc = "keyboard_poll"
    /\ PollCond(attempt)
    /\ \E call \in Calls, ct \in OptionTexts(text) :
         IF call = "raises"
         THEN /\ ct = None
              /\ pc' = AfterStage(FALSE, "scroll")
              /\ attempt' = 0
              /\ KeyReset
              /\ UNCHANGED <<res, stage_ok, hi_fresh, de_fresh>>
         ELSE IF OptionMatches(ct, text)
         THEN /\ Mutate
              /\ res' = "ok"
              /\ stage_ok' = "keyboard"
              /\ pc' = AfterStage(TRUE, "scroll")
              /\ attempt' = 0
              /\ keys' = IF watch THEN Append(keys, "Enter") ELSE keys
              /\ current_text' = IF watch THEN ct ELSE current_text
              /\ UNCHANGED <<first_chars, final_stage>>
         ELSE /\ Mutate
              /\ attempt' = attempt + 1
              /\ pc' = pc
              /\ keys' = IF watch THEN Append(keys, ArrowKey(attempt)) ELSE keys
              /\ UNCHANGED <<res, stage_ok, current_text, first_chars,
                             final_stage>>
    /\ stale_use' = FALSE
    /\ UNCHANGED <<candidate_global_data, field_vars, watch_vars, run_vars, login_vars, loop_vars, highlight_index, index,
                   text, max_retries, dom_element, stages, tries, matched, exc,
                   filled_in_round, trace>>

\* the polling loop ran out without a match
KeyboardExhausted ==
    /\ pc = "keyboard_poll"
    /\ ~PollCond(attempt)
    /\ pc' = AfterStage(FALSE, "scroll")
    /\ attempt' = 0
    /\ KeyReset
    /\ stale_use' = FALSE
    /\ UNCHANGED <<candidate_global_data, field_vars, watch_vars, run_vars, login_vars, loop_vars, highlight_index, index,
                   text, max_retries, dom_element, res, stages, stage_ok, tries,
                   matched, exc, filled_in_round, trace, hi_fresh, de_fresh>>

\* scroll stage: search the container, then try the option selectors in turn
ScrollStage ==
    /\ pc = "scroll"
    /\ stages' = Append(stages, "scroll")
    /\ \E out \in {"raises", "not_found", "no_selector_clicked", "clicked"} :
         /\ IF out \in {"clicked", "no_selector_clicked"}
            THEN Mutate
            ELSE UNCHANGED <<hi_fresh, de_fresh>>
         /\ pc' = AfterStage(out = "clicked", "typing")
         /\ res' = IF out = "clicked" THEN "ok" ELSE res
         /\ stage_ok' = IF out = "clicked" THEN "scroll" ELSE stage_ok
    /\ stale_use' = FALSE
    /\ UNCHANGED <<candidate_global_data, field_vars, key_vars, watch_vars, run_vars, login_vars, loop_vars, highlight_index, index,
                   text, max_retries, dom_element, attempt, tries, matched, exc,
                   filled_in_round, trace>>

\* mutant: the final stage reports success only when an option with the
\* target was there to be chosen
FinalResult_needs_option(call, present) ==
    IF call = "returns" /\ present THEN "ok" ELSE "err"

\* the ActionResult of the final stage: the success message when the click,
\* the typing and the Enter press returned, the error when one of them raised
FinalResult(call, present) == IF call = "raises" THEN "err" ELSE "ok"

\* final stage: click, type the whole text, press Enter; the page may or may
\* not hold an option containing the text, which no line of the stage reads
FinalStage ==
    /\ pc = "typing"
    /\ stages' = Append(stages, "typing")
    /\ Mutate
    /\ \E call \in Calls, present \in BOOLEAN :
         /\ res' = FinalResult(call, present)
         /\ stage_ok' = IF res' = "ok" THEN "typing" ELSE stage_ok
         /\ final_stage' = IF watch
                           THEN Some([exists |-> present,
                                      raised |-> call = "raises"])
                           ELSE None
    /\ pc' = "track"
    /\ stale_use' = FALSE
    /\ UNCHANGED <<first_chars, keys, current_text>>
    /\ UNCHANGED <<candidate_global_data, field_vars, watch_vars, run_vars, login_vars, loop_vars, highlight_index, index,
                   text, max_retries, dom_element, attempt, tries, matched, exc,
                   filled_in_round, trace>>

(***************************************************************************)
(* upload_resume_file                                                      *)
(***************************************************************************)
\* one call made by upload_resume_file: on the path, on the element of a
\* highlight index, on the page, or on the k-th file input of the page;
\* ok: the call returned
UCall(name, on, ok) == [call |-> name, on |-> on, ok |-> ok]

OnPath == <<"path">>
OnPage == <<"page">>
OnIndex(i) == <<"index", i>>
OnInput(k) == <<"input", k>>

\* mutant: a path is enough, whether or not it names a file
PathUsable_any_path(path, is_file) == path # None

\* `if not resume_path` and `if not full_path.is_file()` both passed
PathUsable(path, is_file) == path # None /\ is_file

\* the calls on the path
PathCalls(path, is_file) ==
    IF path = None THEN <<>> ELSE <<UCall("is_file", OnPath, is_file)>>

\* what the direct attempt may come to
Directs == {"locate_raises", "no_handle", "set_raises", "assigned"}

\* the direct attempt on the located index
DirectCalls(sm, i, direct) ==
    IF ~InMap(sm, i) THEN <<>>
    ELSE IF direct = "locate_raises"
    THEN <<UCall("get_locate_element", OnIndex(i), FALSE)>>
    ELSE IF direct = "no_handle"
    THEN <<UCall("get_locate_element", OnIndex(i), TRUE)>>
    ELSE <<UCall("get_locate_element", OnIndex(i), TRUE),
           UCall("set_input_files", OnIndex(i), direct = "assigned")>>

\* the direct attempt returned success
DirectDone(sm, i, direct) == InMap(sm, i) /\ direct = "assigned"

\* the file inputs of a page, in document order: TRUE where set_input_files
\* on the input returns
FileInputs == UNION {[1..n -> BOOLEAN] : n \in 0..MaxInputs}

\* the loop over the file inputs, from the k-th on
RECURSIVE ScanCalls(_, _)
ScanCalls(inputs, k) ==
    IF k > Len(inputs) THEN <<>>
    ELSE IF inputs[k] THEN <<UCall("set_input_files", OnInput(k), TRUE)>>
    ELSE <<UCall("set_input_files", OnInput(k), FALSE)>> \o ScanCalls(inputs, k + 1)

\* mutant: the page's file inputs are tried whatever the direct attempt did
FallbackTried_always(done) == TRUE

\* the fallback is reached only when the direct attempt has not returned
FallbackTried(done) == ~done

\* the fallback: query the page's file inputs, then the loop over them
FallbackCalls(query, inputs) ==
    IF query = "raises" THEN <<UCall("query_selector_all", OnPage, FALSE)>>
    ELSE <<UCall("query_selector_all", OnPage, TRUE)>> \o ScanCalls(inputs, 1)

\* the calls of the two attempts, in program order
AttemptCalls(sm, i, direct, query, inputs) ==
    DirectCalls(sm, i, direct)
    \o (IF FallbackTried(DirectDone(sm, i, direct))
        THEN FallbackCalls(query, inputs) ELSE <<>>)

\* some set_input_files call of cs returned
Assigned(cs) ==
    \E k \in DOMAIN cs : cs[k].call = "set_input_files" /\ cs[k].ok

\* the whole call: the path preconditions, the page and its selector map, the
\* direct assignment on the index, then the page's file inputs in turn
Upload ==
    /\ pc = "upload"
    /\ \E is_file \in BOOLEAN :
         LET path == candidate_global_data.resume_file_path
             pre == PathCalls(path, is_file) IN
         IF ~PathUsable(path, is_file)
         THEN /\ path = None => is_file
              /\ res' = "err"
              /\ pc' = "track"
              /\ exc' = exc
              /\ stale_use' = FALSE
              /\ uploads' = IF watch THEN pre ELSE uploads
              /\ UNCHANGED <<hi_fresh, de_fresh, selector_map>>
         ELSE \E page \in Calls, map \in Calls :
           IF page = "raises" \/ map = "raises"
           THEN /\ page = "raises" => map = "returns"
                /\ res' = res
                /\ pc' = "raise"
                /\ exc' = "Action"
                /\ stale_use' = FALSE
                /\ uploads' = IF watch
                              THEN pre \o <<UCall("get_current_page", OnPage,
                                                  page = "returns")>>
                                   \o (IF page = "returns"
                                       THEN <<UCall("get_selector_map", OnPage,
                                                    FALSE)>>
                                       ELSE <<>>)
                              ELSE uploads
                /\ UNCHANGED <<hi_fresh, de_fresh, selector_map>>
           ELSE \E sm \in SelectorMaps, direct \in Directs :
                  /\ ~InMap(sm, index) => direct = "no_handle"
                  /\ \E query \in Calls, inputs \in FileInputs :
                       LET cs == AttemptCalls(sm, index, direct, query, inputs) IN
                       /\ ~FallbackTried(DirectDone(sm, index, direct))
                            => query = "returns" /\ inputs = <<>>
                       /\ query = "raises" => inputs = <<>>
                       /\ res' = IF Assigned(cs) THEN "ok" ELSE "err"
                       /\ pc' = "track"
                       /\ exc' = exc
                       /\ stale_use' = ~hi_fresh
                       /\ IF Assigned(cs)
                          THEN Mutate
                          ELSE UNCHANGED <<hi_fresh, de_fresh>>
                       /\ selector_map' = IF watch THEN Some(sm) ELSE selector_map
                       /\ uploads' = IF watch
                                     THEN pre
                                          \o <<UCall("get_current_page", OnPage, TRUE),
                                               UCall("get_selector_map", OnPage, TRUE)>>
                                          \o cs
                                     ELSE uploads
    /\ UNCHANGED <<candidate_global_data, field_vars, key_vars, watch, field_clicks, run_vars, login_vars, loop_vars, highlight_index, index,
                   text, max_retries, dom_element, attempt, stages, stage_ok,
                   tries, matched, filled_in_round, trace>>

(***************************************************************************)
(* get_site_login_credentials and perform_login_flow                       *)
(***************************************************************************)
\* the site names the agent passes
SiteNames == { <<"L", "i", "n", "k", "e", "d", "I", "n">>,
               <<" ", "I", "n", "d", "e", "e", "d">>,
               <<"A", "c", "m", "e">> }

U_user == <<"u", "1">>

P_one == <<"p", "w", "1">>

P_two == <<"p", "w", "2">>

\* the entries of the credentials file: complete, with one password or the
\* other, without "password", with an empty "username"
E_one == [username |-> U_user, password |-> P_one]

E_two == [username |-> U_user, password |-> P_two]

E_nopw == [username |-> U_user, password |-> NoKey]

E_nouser == [username |-> <<>>, password |-> P_one]

\* one item of login_credentials_data
Item(k, e) == [key |-> k, creds |-> e]

\* a file that gives every site the entry e
CD_all(e) == << Item(<<"L", "i", "n", "k", "e", "d", "I", "n">>, e),
                Item(<<"I", "n", "d", "e", "e", "d">>, e),
                Item(<<"A", "c", "m", "e">>, e) >>

\* a file whose keys differ by case only: in the lower-cased dictionary the
\* later item replaces the earlier one
CD_dup == << Item(<<"L", "i", "n", "k", "e", "d", "I", "n">>, E_nopw),
             Item(<<"l", "i", "n", "k", "e", "d", "i", "n">>, E_one) >>

CD_one == << Item(<<"L", "i", "n", "k", "e", "d", "I", "n">>, E_one) >>

\* the values login_credentials_data may have, each in insertion order
CredentialMaps ==
    {CD_all(E_one), CD_all(E_two), CD_all(E_nopw), CD_all(E_nouser), CD_dup,
     CD_one, <<>>}

\* page.url
Urls == { <<"l", "i", "n", "k", "e", "d", "i", "n", ".", "c", "o",
              "m", "/", "i", "n">>,
          <<"x", ".", "I", "n", "d", "e", "e", "d", ".", "c", "o",
              "m">>,
          <<"x", ".", "o", "r", "g">> }

\* str(e) of an exception a page call raises
Errors == { <<"T", "i", "m", "e", "o", "u", "t">> }

\* ActionResult(error=..., extracted_content=..., include_in_memory=...)
AR(err, content, mem) ==
    [error |-> err, extracted_content |-> content, include_in_memory |-> mem]

\* dict.get(key, "")
GetOrEmpty(v) == IF v = NoKey THEN <<>> ELSE v

\* json.dumps({"username": u, "password": p})
JsonDumps(u, p) ==
    <<"{", "\"", "u", "s", "e", "r", "n", "a", "m", "e", "\"", ":",
        " ", "\"">>
    \o u \o
    <<"\"", ",", " ", "\"", "p", "a", "s", "s", "w", "o", "r", "d",
        "\"", ":", " ", "\"">>
    \o p \o <<"\"", "}">>

\* the least k with sub at s[k+1 ..], or Len(s) when sub is not in s
Find(sub, s) ==
    IF Contains(sub, s)
    THEN CHOOSE k \in 0..(Len(s) - Len(sub)) :
           /\ SubSeq(s, k + 1, k + Len(sub)) = sub
           /\ \A j \in 0..(k - 1) : SubSeq(s, j + 1, j + Len(sub)) # sub
    ELSE Len(s)

RECURSIVE UntilQuote(_)
UntilQuote(s) ==
    IF s = <<>> \/ Head(s) = "\"" THEN <<>>
    ELSE <<Head(s)>> \o UntilQuote(Tail(s))

\* json.loads(content).get(key, "") for a string member of an object
JsonMember(content, key) ==
    LET pat == <<"\"">> \o key \o <<"\"", ":", " ", "\"">>
        k == Find(pat, content)
    IN  IF ~Contains(pat, content) THEN <<>>
        ELSE UntilQuote(SubSeq(content, k + Len(pat) + 1, Len(content)))

\* ", ".join of the keys' reprs, from item k on
RECURSIVE KeysFrom(_, _)
KeysFrom(data, k) ==
    IF k > Len(data) THEN <<>>
    ELSE <<"'">> \o data[k].key \o <<"'">>
         \o (IF k < Len(data) THEN <<",", " ">> ELSE <<>>)
         \o KeysFrom(data, k + 1)

\* str(list(login_credentials_data.keys()))
KeysRepr(data) == <<"[">> \o KeysFrom(data, 1) \o <<"]">>

NoCredsMsg(name, data) ==
    <<"N", "o", " ", "l", "o", "g", "i", "n", " ", "c", "r", "e",
        "d", "e", "n", "t", "i", "a", "l", "s", " ", "f", "o", "u",
        "n", "d", " ", "f", "o", "r", " ", "s", "i", "t", "e", " ",
        "'">>
    \o name \o
    <<"'", " ", "(", "a", "v", "a", "i", "l", "a", "b", "l", "e",
        " ", "s", "i", "t", "e", "s", ":", " ">>
    \o KeysRepr(data) \o <<")">>

IncompleteMsg(site) ==
    <<"C", "r", "e", "d", "e", "n", "t", "i", "a", "l", "s", " ",
        "i", "n", "c", "o", "m", "p", "l", "e", "t", "e", " ", "f",
        "o", "r", " ", "s", "i", "t", "e", " ">>
    \o site

AttemptMsg(site, user) ==
    <<"A", "t", "t", "e", "m", "p", "t", "i", "n", "g", " ", "t",
        "o", " ", "l", "o", "g", "i", "n", " ", "t", "o", " ">>
    \o site \o
    <<" ", "w", "i", "t", "h", " ", "u", "s", "e", "r", " ", "'">>
    \o user \o <<"'">>

NoFlowMsg(site) ==
    <<"N", "o", " ", "s", "p", "e", "c", "i", "a", "l", "i", "z",
        "e", "d", " ", "l", "o", "g", "i", "n", " ", "f", "l", "o",
        "w", " ", "f", "o", "r", " ", "s", "i", "t", "e", ":", " ">>
    \o site

\* the site's name as the messages of its flow spell it
Title(flow) ==
    IF flow = "linkedin" THEN <<"L", "i", "n", "k", "e", "d", "I",
                                  "n">>
    ELSE <<"I", "n", "d", "e", "e", "d">>

ClickedMsg(flow) ==
    <<"C", "l", "i", "c", "k", "e", "d", " ", "s", "i", "g", "n",
        " ", "i", "n", " ", "o", "n", " ">>
    \o Title(flow) \o <<".">>

CompleteMsg(flow, user) ==
    <<"L", "o", "g", "i", "n", " ", "a", "t", "t", "e", "m", "p",
        "t", " ", "c", "o", "m", "p", "l", "e", "t", "e", " ", "f",
        "o", "r", " ">>
    \o Title(flow) \o
    <<" ", "u", "s", "e", "r", " ">>
    \o user

FailedMsg(flow, e) ==
    <<"F", "a", "i", "l", "e", "d", " ">> \o Title(flow) \o
    <<" ", "l", "o", "g", "i", "n", " ", "f", "l", "o", "w", ":",
        " ">>
    \o e

\* the item of the lower-cased dictionary for site_name_lower: the last item
\* of data whose lower-cased key is the name, or None
Lookup(data, site) ==
    LET hits == {k \in DOMAIN data : Lower(data[k].key) = site}
    IN  IF hits = {} THEN None
        ELSE Some(data[CHOOSE k \in hits : \A j \in hits : j <= k].creds)

\* get_site_login_credentials(name): the ActionResult and what is logged
get_site_login_credentials(name, data) ==
    LET creds == Lookup(data, Lower(Strip(name)))
    IN  IF creds # None
        THEN [result |-> AR(None,
                            Some(JsonDumps(GetOrEmpty(creds[1].username),
                                           GetOrEmpty(creds[1].password))),
                            FALSE),
              logged |-> <<>>]
        ELSE [result |-> AR(Some(NoCredsMsg(name, data)), None, FALSE),
              logged |-> <<NoCredsMsg(name, data)>>]

\* mutant: a user name alone is taken as complete credentials
CredsComplete_user(u, p) == u # <<>>

\* `not username or not password` is false
CredsComplete(u, p) == u # <<>> /\ p # <<>>

\* mutant: a site without a flow of its own is given the first one
Flow_default(site) ==
    IF site = <<"i", "n", "d", "e", "e", "d">>
    THEN "indeed" ELSE "linkedin"

\* the branch of the if/elif chain on site_name_lower
Flow(site) ==
    IF site = <<"l", "i", "n", "k", "e", "d", "i", "n">>
    THEN "linkedin"
    ELSE IF site = <<"i", "n", "d", "e", "e", "d">>
    THEN "indeed"
    ELSE "none"

\* `domain not in url` of the flow: the Indeed flow lower-cases the url
OnSite(flow, url) ==
    IF flow = "linkedin"
    THEN Contains(<<"l", "i", "n", "k", "e", "d", "i", "n", ".",
                      "c", "o", "m">>, url)
    ELSE Contains(<<"i", "n", "d", "e", "e", "d", ".", "c", "o",
                      "m">>, Lower(url))

\* mutant: the password is filled before the user name
LoginSeq_swapped(flow) ==
    <<"wait_for_load_state", "fill_password", "fill_username", "click">>

\* the page calls of a flow after the navigation, in program order
LoginSeq(flow) ==
    <<"wait_for_load_state", "fill_username", "fill_password", "click">>

\* what the login actions leave alone
login_frame == <<candidate_global_data, loop_vars, highlight_index, call_vars,
                 exc, filled_in_round, hi_fresh, de_fresh, field_vars,
                 key_vars, watch_vars, run_vars, login_credentials_data>>

\* the agent calls perform_login_flow(site_name): up to the first await
AgentCallsLogin ==
    /\ pc = "agent_login"
    /\ \E s \in SiteNames :
         LET snl == Strip(Lower(s))
             got == get_site_login_credentials(snl, login_credentials_data)
         IN  /\ site_name' = s
             /\ site_name_lower' = snl
             /\ IF got.result.error # None
                THEN /\ log' = log \o got.logged
                     /\ results' = Append(results, got.result)
                     /\ pc' = "login_done"
                     /\ UNCHANGED <<username, password>>
                ELSE LET content == got.result.extracted_content[1]
                         u == JsonMember(content, <<"u","s","e","r","n","a","m","e">>)
                         p == JsonMember(content, <<"p","a","s","s","w","o","r","d">>)
                     IN  /\ username' = u
                         /\ password' = p
                         /\ IF ~CredsComplete(u, p)
                            THEN /\ log' = log \o got.logged
                                           \o <<IncompleteMsg(snl)>>
                                 /\ results' = Append(results,
                                        AR(Some(IncompleteMsg(snl)), None, FALSE))
                                 /\ pc' = "login_done"
                            ELSE /\ log' = log \o got.logged
                                           \o <<AttemptMsg(snl, u)>>
                                 /\ results' = results
                                 /\ pc' = "login_page"
    /\ trace' = <<"perform_login_flow">>
    /\ stale_use' = FALSE
    /\ UNCHANGED <<login_frame, page_actions, login_step>>

\* the agent calls get_site_login_credentials(site_name) itself
AgentCallsGetCredentials ==
    /\ pc = "agent_login"
    /\ \E s \in SiteNames :
         LET got == get_site_login_credentials(s, login_credentials_data)
         IN  /\ site_name' = s
             /\ site_name_lower' = Lower(Strip(s))
             /\ log' = log \o got.logged
             /\ results' = Append(results, got.result)
    /\ trace' = <<"get_site_login_credentials">>
    /\ pc' = "login_done"
    /\ stale_use' = FALSE
    /\ UNCHANGED <<login_frame, username, password, page_actions, login_step>>

\* page = await browser.get_current_page(), outside every try; then the
\* choice of the flow, and the else branch when the site has none
LoginGetPage ==
    /\ pc = "login_page"
    /\ page_actions' = Append(page_actions, "get_current_page")
    /\ \E call \in Calls :
         IF call = "raises"
         THEN /\ pc' = "login_raise"
              /\ UNCHANGED <<log, results>>
         ELSE IF Flow(site_name_lower) = "none"
         THEN /\ log' = Append(log, NoFlowMsg(site_name_lower))
              /\ results' = Append(results,
                                   AR(Some(NoFlowMsg(site_name_lower)), None, FALSE))
              /\ pc' = "login_done"
         ELSE /\ pc' = "login_nav"
              /\ UNCHANGED <<log, results>>
    /\ stale_use' = FALSE
    /\ UNCHANGED <<login_frame, trace, site_name, site_name_lower, username,
                   password, login_step>>

\* the except clause of a flow: the message logged and returned as an error
LoginFailed(e) ==
    /\ log' = Append(log, FailedMsg(Flow(site_name_lower), e))
    /\ results' = Append(results,
                         AR(Some(FailedMsg(Flow(site_name_lower), e)), None, FALSE))
    /\ pc' = "login_done"

\* inside the try: read page.url, and goto the login page unless on the site
LoginNavigate ==
    /\ pc = "login_nav"
    /\ \E call \in Calls, url \in Urls, e \in Errors :
         IF OnSite(Flow(site_name_lower), url)
         THEN /\ call = "returns"
              /\ pc' = "login_seq"
              /\ UNCHANGED <<page_actions, log, results>>
         ELSE IF call = "raises"
         THEN /\ page_actions' = page_actions \o <<"goto", "raised">>
              /\ LoginFailed(e)
         ELSE /\ page_actions' = Append(page_actions, "goto")
              /\ pc' = "login_seq"
              /\ UNCHANGED <<log, results>>
    /\ login_step' = 0
    /\ stale_use' = FALSE
    /\ UNCHANGED <<login_frame, trace, site_name, site_name_lower, username,
                   password>>

\* the next page call of the flow; after the last one the success result
LoginStep ==
    /\ pc = "login_seq"
    /\ login_step < Len(LoginSeq(Flow(site_name_lower)))
    /\ LET flow == Flow(site_name_lower)
           op == LoginSeq(flow)[login_step + 1]
       IN  \E call \in Calls, e \in Errors :
             IF call = "raises"
             THEN /\ page_actions' = page_actions \o <<op, "raised">>
                  /\ login_step' = login_step
                  /\ LoginFailed(e)
             ELSE /\ page_actions' = Append(page_actions, op)
                  /\ login_step' = login_step + 1
                  /\ IF login_step + 1 = Len(LoginSeq(flow))
                     THEN /\ log' = log \o <<ClickedMsg(flow),
                                             CompleteMsg(flow, username)>>
                          /\ results' = Append(results,
                                 AR(None, Some(CompleteMsg(flow, username)), TRUE))
                          /\ pc' = "login_done"
                     ELSE /\ pc' = pc
                          /\ UNCHANGED <<log, results>>
    /\ stale_use' = FALSE
    /\ UNCHANGED <<login_frame, trace, site_name, site_name_lower, username,
                   password>>

(***************************************************************************)
(* run_job_application                                                     *)
(***************************************************************************)
\* the locals of fill_fields_iteratively and of the actions it called are dead
\* once it is left; round_count, queries and exc are kept for the properties
FillLeft ==
    /\ unfilled_list' = <<>>
    /\ pos' = 0
    /\ last_resp' = None
    /\ no_progress_repeat' = FALSE
    /\ handled' = <<>>
    /\ filled_in_round' = FALSE
    /\ trace' = <<>>
    /\ highlight_index' = None
    /\ hi_fresh' = TRUE
    /\ de_fresh' = TRUE
    /\ el_value' = <<>>
    /\ typed_value' = None
    /\ CallReset
    /\ KeyReset

fill_kept == <<candidate_global_data, round_count, queries, exc, calls, held,
               watch_vars, hidden_field, service_vars, login_vars>>

\* what the steps of run_job_application outside the fill loop leave alone
run_frame == <<candidate_global_data, loop_vars, highlight_index, call_vars,
               exc, filled_in_round, trace, hi_fresh, de_fresh, field_vars,
               key_vars, watch_vars, hidden_field, service_vars, login_vars>>

\* agent = Agent(...)
ConstructAgent ==
    /\ pc = "construct"
    /\ \E call \in Calls :
         IF call = "raises"
         THEN agent' = FALSE /\ run_exc' = "construct" /\ pc' = "finally"
         ELSE agent' = TRUE /\ run_exc' = run_exc /\ pc' = "agent_run"
    /\ stale_use' = FALSE
    /\ UNCHANGED <<run_frame, final_state, final_reads, fill_end, clicks, context_closed,
                   browser_closed>>

\* await agent.run(max_steps=50), then the call of fill_fields_iteratively
AgentRun ==
    /\ pc = "agent_run"
    /\ \E call \in Calls :
         IF call = "raises"
         THEN run_exc' = "agent_run" /\ pc' = "finally"
         ELSE run_exc' = run_exc /\ pc' = "while"
    /\ stale_use' = FALSE
    /\ UNCHANGED <<run_frame, agent, final_state, final_reads, fill_end, clicks,
                   context_closed, browser_closed>>

\* an exception left fill_fields_iteratively: logged, raised again
FillRaised ==
    /\ pc = "raise"
    /\ run_exc' = "fill"
    /\ pc' = "finally"
    /\ FillLeft
    /\ stale_use' = FALSE
    /\ UNCHANGED <<fill_kept, agent, final_state, final_reads, fill_end, clicks,
                   context_closed, browser_closed>>

\* how the while loop of fill_fields_iteratively was left when the last
\* response was resp: by one of its four breaks, or by the while test when
\* the last round had fields to fill
FillEnd(resp) ==
    IF resp.error THEN "discover_error"
    ELSE IF resp.empty THEN "no_content"
    ELSE IF ~resp.is_json THEN "bad_json"
    ELSE IF ~resp.has_key \/ resp.unfilled_fields = <<>> THEN "no_fields"
    ELSE "exhausted"

\* mutant: the submit scan is made only when the form reported no field left
AfterFill_only_complete(end) == IF end = "no_fields" THEN "scan" ELSE "finally"

\* where run_job_application goes once fill_fields_iteratively has returned
\* and the final state was read: the value returned is not looked at
AfterFill(end) == "scan"

\* fill_fields_iteratively returned: final_state = await get_state()
FinisherRead ==
    /\ pc = "return"
    /\ final_reads' = final_reads + 1
    /\ fill_end' = FillEnd(last_resp[1])
    /\ \E call \in Calls, sm \in FinalMaps :
         IF call = "raises"
         THEN /\ sm = SM_empty
              /\ final_state' = final_state
              /\ run_exc' = "final_state"
              /\ pc' = "finally"
         ELSE /\ final_state' = Some(sm)
              /\ run_exc' = run_exc
              /\ pc' = AfterFill(fill_end')
    /\ FillLeft
    /\ stale_use' = FALSE
    /\ UNCHANGED <<fill_kept, agent, clicks, context_closed, browser_closed>>

\* the scan of final_state.selector_map: click_element on the first match and
\* break, or nothing when the loop runs through
FinisherClick ==
    /\ pc = "scan"
    /\ LET idx == SubmitIndex(final_state[1]) IN
         IF idx = None
         THEN /\ pc' = "finally"
              /\ UNCHANGED <<clicks, run_exc>>
         ELSE /\ clicks' = Append(clicks, idx[1])
              /\ \E call \in Calls :
                   /\ run_exc' = IF call = "raises" THEN "click" ELSE run_exc
                   /\ pc' = "finally"
    /\ stale_use' = FALSE
    /\ UNCHANGED <<run_frame, agent, final_state, final_reads, fill_end, context_closed,
                   browser_closed>>

\* finally: if agent: await agent.browser_context.close()
Finally ==
    /\ pc = "finally"
    /\ IF ~agent
       THEN /\ pc' = "close_browser"
            /\ UNCHANGED <<context_closed, run_exc>>
       ELSE \E call \in Calls :
              IF call = "raises"
              THEN /\ context_closed' = context_closed
                   /\ run_exc' = "context_close"
                   /\ pc' = "exit"
              ELSE /\ context_closed' = TRUE
                   /\ run_exc' = run_exc
                   /\ pc' = "close_browser"
    /\ stale_use' = FALSE
    /\ UNCHANGED <<run_frame, agent, final_state, final_reads, fill_end, clicks,
                   browser_closed>>

\* finally: await browser.close()
CloseBrowser ==
    /\ pc = "close_browser"
    /\ \E call \in Calls :
         IF call = "raises"
         THEN browser_closed' = browser_closed /\ run_exc' = "browser_close"
         ELSE browser_closed' = TRUE /\ run_exc' = run_exc
    /\ pc' = "exit"
    /\ stale_use' = FALSE
    /\ UNCHANGED <<run_frame, agent, final_state, final_reads, fill_end, clicks,
                   context_closed>>

(***************************************************************************)
(* worker.py: process_application                                          *)
(***************************************************************************)
\* cv['personalInfo'] with its keys; a key that is missing is None
PersonalInfo(n, e, ph, loc) == [name |-> n, email |-> e, phone |-> ph, location |-> loc]

\* the cv documents a request may carry: a whole one, one without a phone,
\* one without personalInfo
CV_full ==
    [personalInfo |-> Some(PersonalInfo(Some(<<"J","o">>),
                                        Some(<<"j","a","n","e","@","x",".","c","o","m">>),
                                        Some(<<"5","5">>), Some(<<"R","d">>)))]
CV_nophone ==
    [personalInfo |-> Some(PersonalInfo(Some(<<"J","o">>),
                                        Some(<<"j","a","n","e","@","x",".","c","o","m">>),
                                        None, Some(<<"R","d">>)))]
CV_noinfo == [personalInfo |-> None]

CVs == {CV_full, CV_nophone, CV_noinfo}

\* the URLs of the stored CV file a request may carry
CvFileUrls == {<<"c","v">>, <<"h","t","t","p","s",":","/","/","c","v">>}

\* cv['personalInfo']['name'], ['email'] and ['phone'] raise KeyError on a
\* missing key
HasProfileKeys(c) ==
    /\ c.personalInfo # None
    /\ c.personalInfo[1].name # None
    /\ c.personalInfo[1].email # None
    /\ c.personalInfo[1].phone # None

\* mutant: the URL of the CV file is passed on as the resume path
BuildProfile_with_path(c, url) ==
    [name |-> c.personalInfo[1].name[1], email |-> c.personalInfo[1].email[1],
     phone |-> c.personalInfo[1].phone[1],
     address |-> c.personalInfo[1].location[1], resume_file_path |-> Some(url)]

\* CandidateProfile(name=..., email=..., phone=..., address=...,
\* cv_file_url=cv_file_url, ...).model_dump(): the model declares no field
\* cv_file_url, so the keyword is dropped, and resume_file_path, which is not
\* passed, takes its default None
BuildProfile(c, url) ==
    [name |-> c.personalInfo[1].name[1], email |-> c.personalInfo[1].email[1],
     phone |-> c.personalInfo[1].phone[1],
     address |-> c.personalInfo[1].location[1], resume_file_path |-> None]

\* what the steps of process_application outside run_job_application leave
\* alone
worker_frame == <<loop_vars, highlight_index, call_vars, exc, filled_in_round,
                  trace, hi_fresh, de_fresh, field_vars, key_vars, watch_vars,
                  hidden_field, login_vars, agent, run_exc, final_state,
                  final_reads, fill_end, clicks, context_closed, browser_closed,
                  crawl_vars>>

\* doc_ref.update({'status': 'processing', ...})
WorkerBegin ==
    /\ pc = "w_begin"
    /\ \E call \in Calls :
         IF call = "raises"
         THEN /\ worker_exc' = "processing_update"
              /\ pc' = "w_except"
              /\ status_log' = status_log
         ELSE /\ status_log' = Append(status_log, "processing")
              /\ pc' = "w_profile"
              /\ worker_exc' = worker_exc
    /\ stale_use' = FALSE
    /\ UNCHANGED <<worker_frame, candidate_global_data, cv, cv_file_url>>

\* the CandidateProfile is built and run_job_application is called, which
\* assigns the dump of the profile to candidate_global_data; cv and
\* cv_file_url are not read after this and are put back to their initial
\* values
WorkerCallsRun ==
    /\ pc = "w_profile"
    /\ IF ~HasProfileKeys(cv)
       THEN /\ worker_exc' = "KeyError"
            /\ pc' = "w_except"
            /\ candidate_global_data' = candidate_global_data
       ELSE /\ candidate_global_data' = BuildProfile(cv, cv_file_url)
            /\ pc' = "construct"
            /\ worker_exc' = worker_exc
    /\ cv' = None
    /\ cv_file_url' = <<>>
    /\ stale_use' = FALSE
    /\ UNCHANGED <<worker_frame, status_log>>

\* run_job_application is left: by an exception, which the except clause
\* takes, or by returning, and then the recording is uploaded if there is one
WorkerAfterRun ==
    /\ pc = "exit"
    /\ IF run_exc # "none"
       THEN /\ worker_exc' = "run_job_application"
            /\ pc' = "w_except"
       ELSE \E gif \in {"absent", "uploaded", "upload_raises"} :
              IF gif = "upload_raises"
              THEN worker_exc' = "gif_upload" /\ pc' = "w_except"
              ELSE worker_exc' = worker_exc /\ pc' = "w_complete"
    /\ stale_use' = FALSE
    /\ UNCHANGED <<worker_frame, candidate_global_data, status_log, cv,
                   cv_file_url>>

\* doc_ref.update({'status': 'completed', ...})
WorkerCompleted ==
    /\ pc = "w_complete"
    /\ \E call \in Calls :
         IF call = "raises"
         THEN /\ worker_exc' = "completed_update"
              /\ pc' = "w_except"
              /\ status_log' = status_log
         ELSE /\ status_log' = Append(status_log, "completed")
              /\ pc' = "w_done"
              /\ worker_exc' = worker_exc
    /\ stale_use' = FALSE
    /\ UNCHANGED <<worker_frame, candidate_global_data, cv, cv_file_url>>

\* except Exception: doc_ref.update({'status': 'failed', ...}); when that
\* update raises too, the exception leaves process_application
WorkerFailed ==
    /\ pc = "w_except"
    /\ \E call \in Calls :
         IF call = "raises"
         THEN /\ worker_exc' = "failed_update"
              /\ pc' = "w_raised"
              /\ status_log' = status_log
         ELSE /\ status_log' = Append(status_log, "failed")
              /\ pc' = "w_done"
              /\ worker_exc' = worker_exc
    /\ stale_use' = FALSE
    /\ UNCHANGED <<worker_frame, candidate_global_data, cv, cv_file_url>>

(***************************************************************************)
(* crawler_service.py: process_crawl_results                               *)
(***************************************************************************)
\* one crawled page: metadata.get('url'), metadata.get('statusCode') and the
\* title; a key that is missing is None
Page(u, code, t) == [url |-> u, statusCode |-> code, title |-> t]

\* the URLs a page may carry: none, the empty one, two pages of a site
PageUrls == {None, Some(<<>>), Some(<<"/","a">>), Some(<<"/","b">>)}

StatusCodes == {Some(200), Some(404)}

Pages == {Page(u, c, <<"T">>) : u \in PageUrls, c \in StatusCodes}

\* the crawl results a call may be given: at most MaxPages pages
CrawlResults == UNION {[1..n -> Pages] : n \in 0..MaxPages}

\* the start URLs of the configuration
SourceUrls == {<<"s","1">>, <<"s","2">>}

\* hashlib.sha256(url.encode()).hexdigest(): a digest, one per URL
generate_job_id(url) == <<"#">> \o url

\* `if not url or metadata.get('statusCode') == 404: continue`
Skipped(page) ==
    \/ page.url = None
    \/ page.url[1] = <<>>
    \/ page.statusCode = Some(404)

\* job_data of a page
JobData(page, src) ==
    [job_id |-> generate_job_id(page.url[1]), url |-> page.url[1],
     title |-> page.title, source_url |-> src]

\* a job stored by an earlier crawl of the page /a, under another title
OldJob ==
    [job_id |-> generate_job_id(<<"/","a">>), url |-> <<"/","a">>,
     title |-> <<"o","l","d">>, source_url |-> <<"s","0">>]

\* jobs_ref.document(job_id).get().exists
Exists(docs, id) == \E d \in docs : d.job_id = id

\* jobs_ref.document(job_id).set(job_data): the document of that id is
\* created or replaced
SetDoc(docs, d) == {e \in docs : e.job_id # d.job_id} \cup {d}

\* mutant: the document is written whether or not it exists
ShouldStore_always(exists) == TRUE

\* `if not existing_job.exists`
ShouldStore(exists) == ~exists

\* what the steps of process_crawl_results leave alone
crawl_frame == <<candidate_global_data, loop_vars, highlight_index, call_vars,
                 exc, filled_in_round, trace, hi_fresh, de_fresh, field_vars,
                 key_vars, watch_vars, hidden_field, login_vars, agent,
                 run_exc, final_state, final_reads, fill_end, clicks,
                 context_closed, browser_closed, status_log, cv, cv_file_url,
                 worker_exc>>

\* crawl_url calls process_crawl_results(crawl_status, url_config['url'])
CrawlBegin ==
    /\ pc = "crawl_idle"
    /\ passes < MaxPasses
    /\ passes' = passes + 1
    /\ \E src \in SourceUrls : source_url' = src
    /\ page_no' = 0
    /\ pass_clean' = TRUE
    /\ pc' = "crawl_for"
    /\ stale_use' = FALSE
    /\ UNCHANGED <<crawl_frame, jobs, crawl_status, clean_done>>

\* one iteration of the for loop over crawl_status['data']; an exception of
\* the read leaves process_crawl_results, one of the write is logged
CrawlPage ==
    /\ pc = "crawl_for"
    /\ page_no < Len(crawl_status)
    /\ LET page == crawl_status[page_no + 1] IN
         IF Skipped(page)
         THEN /\ page_no' = page_no + 1
              /\ pc' = pc
              /\ UNCHANGED <<jobs, pass_clean>>
         ELSE \E get \in Calls :
                IF get = "raises"
                THEN /\ pc' = "crawl_idle"
                     /\ page_no' = 0
                     /\ pass_clean' = FALSE
                     /\ jobs' = jobs
                ELSE /\ page_no' = page_no + 1
                     /\ pc' = pc
                     /\ IF ShouldStore(Exists(jobs, generate_job_id(page.url[1])))
                        THEN \E set \in Calls :
                               IF set = "raises"
                               THEN jobs' = jobs /\ pass_clean' = FALSE
                               ELSE /\ jobs' = SetDoc(jobs, JobData(page, source_url))
                                    /\ pass_clean' = pass_clean
                        ELSE UNCHANGED <<jobs, pass_clean>>
    /\ stale_use' = FALSE
    /\ UNCHANGED <<crawl_frame, crawl_status, source_url, passes, clean_done>>

\* the for loop has run through the pages: process_crawl_results returns
CrawlEnd ==
    /\ pc = "crawl_for"
    /\ page_no = Len(crawl_status)
    /\ pc' = "crawl_idle"
    /\ page_no' = 0
    /\ clean_done' = (clean_done \/ pass_clean)
    /\ stale_use' = FALSE
    /\ UNCHANGED <<crawl_frame, jobs, crawl_status, source_url, passes,
                   pass_clean>>

(***************************************************************************)
(* Specifications                                                          *)
(***************************************************************************)
Next ==
    \/ Discover
    \/ DiscoverRaises
    \/ Exhausted
    \/ LocateField
    \/ EndRound
    \/ DispatchText
    \/ DispatchSelect
    \/ CallCustomSelect
    \/ DispatchClick
    \/ DispatchFile
    \/ DispatchUnsupported
    \/ Track
    \/ InputTextEnter
    \/ InputTextAttempt
    \/ InputTextExhausted
    \/ CustomEnter
    \/ KeyboardStart
    \/ KeyboardPoll
    \/ KeyboardExhausted
    \/ ScrollStage
    \/ FinalStage
    \/ Upload

\* fill_fields_iteratively, from its entry
Spec == Init /\ [][Next]_vars

\* the decision agent calls the registered action input_text_with_retry itself
InitRetry ==
    /\ pc = "agent"
    /\ candidate_global_data \in Candidates
    /\ LoopInit
    /\ CallInit
    /\ FieldInit
    /\ watch = FALSE
    /\ RunInit
    /\ hidden_field = None
    /\ LoginInit

AgentCallsInputText ==
    /\ pc = "agent"
    /\ \E i \in 1..2, t \in {<<"J","o">>, <<" ","J","o">>, <<>>},
          mr \in 0..MaxRetriesArg :
         /\ index' = i
         /\ text' = t
         /\ max_retries' = mr
         /\ held' = (el_value = t)
    /\ calls' = 1
    /\ trace' = <<"input_text_with_retry">>
    /\ pc' = "input_text"
    /\ stale_use' = FALSE
    /\ UNCHANGED <<candidate_global_data, el_value, typed_value, key_vars,
                   watch_vars, run_vars, login_vars, loop_vars, highlight_index, dom_element, attempt,
                   res, stages, stage_ok, tries, matched, exc, filled_in_round,
                   hi_fresh, de_fresh>>

\* the action has returned and the agent, having read the page anew, calls it
\* again with the same index and text
AgentCallsAgain ==
    /\ pc = "track"
    /\ calls < MaxCalls
    /\ calls' = calls + 1
    /\ held' = (el_value = text)
    /\ typed_value' = None
    /\ dom_element' = None
    /\ attempt' = 0
    /\ res' = "none"
    /\ tries' = 0
    /\ matched' = FALSE
    /\ hi_fresh' = TRUE
    /\ de_fresh' = TRUE
    /\ pc' = "input_text"
    /\ stale_use' = FALSE
    /\ UNCHANGED <<candidate_global_data, el_value, key_vars, watch_vars,
                   run_vars, login_vars, loop_vars, highlight_index, index, text, max_retries, stages,
                   stage_ok, exc, filled_in_round, trace>>

NextRetry ==
    \/ AgentCallsInputText
    \/ AgentCallsAgain
    \/ InputTextEnter
    \/ InputTextAttempt
    \/ InputTextExhausted

SpecRetry == InitRetry /\ [][NextRetry]_vars

\* run_job_application, from its entry, with fill_fields_iteratively inside
InitRun ==
    /\ pc = "construct"
    /\ candidate_global_data \in Candidates
    /\ LoopInit
    /\ CallInit
    /\ FieldInit
    /\ watch = FALSE
    /\ RunInit
    /\ hidden_field = None
    /\ LoginInit

NextRun ==
    \/ ConstructAgent
    \/ AgentRun
    \/ Next
    \/ FillRaised
    \/ FinisherRead
    \/ FinisherClick
    \/ Finally
    \/ CloseBrowser

SpecRun == InitRun /\ [][NextRun]_vars

\* the same run on a form with one more required field, hidden from every
\* selector map and reported unfilled by every query
InitOverlay ==
    /\ pc = "construct"
    /\ candidate_global_data \in Candidates
    /\ LoopInit
    /\ CallInit
    /\ FieldInit
    /\ watch = FALSE
    /\ RunInit
    /\ hidden_field = Some(F_hidden.id)
    /\ LoginInit

SpecOverlay == InitOverlay /\ [][NextRun]_vars

\* the agent, with a credentials file loaded, calls one of the login actions
InitLogin ==
    /\ pc = "agent_login"
    /\ candidate_global_data \in Candidates
    /\ LoopInit
    /\ CallInit
    /\ FieldInit
    /\ watch = FALSE
    /\ RunInit
    /\ hidden_field = None
    /\ login_credentials_data \in CredentialMaps
    /\ site_name = <<>>
    /\ site_name_lower = <<>>
    /\ login_step = 0
    /\ username = <<>>
    /\ password = <<>>
    /\ page_actions = <<>>
    /\ log = <<>>
    /\ results = <<>>

NextLogin ==
    \/ AgentCallsLogin
    \/ AgentCallsGetCredentials
    \/ LoginGetPage
    \/ LoginNavigate
    \/ LoginStep

SpecLogin == InitLogin /\ [][NextLogin]_vars

\* fill_fields_iteratively on a form with a single field that every Discover
\* query reports unfilled, from the point where the query of the first round
\* has returned, with the calls made for the field recorded
InitDispatch ==
    /\ pc = "for"
    /\ candidate_global_data \in Candidates
    /\ round_count = 1
    /\ queries = 1
    /\ \E f \in DispatchFields :
         /\ unfilled_list = <<f>>
         /\ last_resp = Some(R_fields(<<f>>))
    /\ pos = 0
    /\ highlight_index = None
    /\ exc = "none"
    /\ no_progress_repeat = FALSE
    /\ filled_in_round = FALSE
    /\ handled = <<>>
    /\ trace = <<>>
    /\ CallInit
    /\ FieldInit
    /\ watch = TRUE
    /\ RunInit
    /\ hidden_field = None
    /\ LoginInit

NextDispatch ==
    \/ DiscoverSame
    \/ Exhausted
    \/ LocateField
    \/ EndRound
    \/ DispatchText
    \/ DispatchSelect
    \/ CallCustomSelect
    \/ DispatchClick
    \/ DispatchFile
    \/ DispatchUnsupported
    \/ Track
    \/ InputTextEnter
    \/ InputTextAttempt
    \/ InputTextExhausted
    \/ CustomEnter
    \/ KeyboardStart
    \/ KeyboardPoll
    \/ KeyboardExhausted
    \/ ScrollStage
    \/ FinalStage
    \/ Upload

SpecDispatch == InitDispatch /\ [][NextDispatch]_vars

\* the same, with every awaited call returning: the event loop keeps
\* scheduling the coroutine as long as it has a step to take
FairSpec == Spec /\ WF_vars(Next)

\* the worker takes one request from the queue and processes it; the
\* candidate data of the module is what an earlier request left
InitWorker ==
    /\ pc = "w_begin"
    /\ candidate_global_data \in Candidates
    /\ LoopInit
    /\ CallInit
    /\ FieldInit
    /\ watch = FALSE
    /\ agent = FALSE
    /\ run_exc = "none"
    /\ final_state = None
    /\ final_reads = 0
    /\ fill_end = "none"
    /\ clicks = <<>>
    /\ context_closed = FALSE
    /\ browser_closed = FALSE
    /\ status_log = <<>>
    /\ cv \in CVs
    /\ cv_file_url \in CvFileUrls
    /\ worker_exc = "none"
    /\ CrawlIdle
    /\ hidden_field = None
    /\ LoginInit

NextWorker ==
    \/ WorkerBegin
    \/ WorkerCallsRun
    \/ NextRun
    \/ WorkerAfterRun
    \/ WorkerCompleted
    \/ WorkerFailed

SpecWorker == InitWorker /\ [][NextWorker]_vars

\* the lists of the form that carry the file field
FileLists == {l \in FieldLists : \E k \in DOMAIN l : l[k] = F_file}

\* the form has a required file field, which every query reports unfilled
DiscoverFile == DiscoverFrom({R_fields(l) : l \in FileLists})

\* the worker processes a request for a form with a required file field
InitWorkerFile ==
    /\ pc = "w_begin"
    /\ candidate_global_data \in Candidates
    /\ LoopInit
    /\ CallInit
    /\ FieldInit
    /\ watch = FALSE
    /\ agent = FALSE
    /\ run_exc = "none"
    /\ final_state = None
    /\ final_reads = 0
    /\ fill_end = "none"
    /\ clicks = <<>>
    /\ context_closed = FALSE
    /\ browser_closed = FALSE
    /\ status_log = <<>>
    /\ cv \in CVs
    /\ cv_file_url \in CvFileUrls
    /\ worker_exc = "none"
    /\ CrawlIdle
    /\ hidden_field = None
    /\ LoginInit

NextWorkerFile ==
    \/ WorkerBegin
    \/ WorkerCallsRun
    \/ ConstructAgent
    \/ AgentRun
    \/ DiscoverFile
    \/ DiscoverRaises
    \/ Exhausted
    \/ LocateField
    \/ EndRound
    \/ DispatchText
    \/ DispatchSelect
    \/ CallCustomSelect
    \/ DispatchClick
    \/ DispatchFile
    \/ DispatchUnsupported
    \/ Track
    \/ InputTextEnter
    \/ InputTextAttempt
    \/ InputTextExhausted
    \/ CustomEnter
    \/ KeyboardStart
    \/ KeyboardPoll
    \/ KeyboardExhausted
    \/ ScrollStage
    \/ FinalStage
    \/ Upload
    \/ FillRaised
    \/ FinisherRead
    \/ FinisherClick
    \/ Finally
    \/ CloseBrowser
    \/ WorkerAfterRun
    \/ WorkerCompleted
    \/ WorkerFailed

SpecWorkerFile == InitWorkerFile /\ [][NextWorkerFile]_vars

\* the crawler processes one crawl result, several times over, on a 'jobs'
\* collection that is empty or holds a job of an earlier crawl
InitCrawl ==
    /\ pc = "crawl_idle"
    /\ candidate_global_data = Candidate(None)
    /\ LoopInit
    /\ CallInit
    /\ FieldInit
    /\ watch = FALSE
    /\ agent = FALSE
    /\ run_exc = "none"
    /\ final_state = None
    /\ final_reads = 0
    /\ fill_end = "none"
    /\ clicks = <<>>
    /\ context_closed = FALSE
    /\ browser_closed = FALSE
    /\ status_log = <<>>
    /\ cv = None
    /\ cv_file_url = <<>>
    /\ worker_exc = "none"
    /\ hidden_field = None
    /\ LoginInit
    /\ jobs \in {{}, {OldJob}}
    /\ crawl_status \in CrawlResults
    /\ source_url = <<>>
    /\ page_no = 0
    /\ passes = 0
    /\ pass_clean = TRUE
    /\ clean_done = FALSE

NextCrawl ==
    \/ CrawlBegin
    \/ CrawlPage
    \/ CrawlEnd

SpecCrawl == InitCrawl /\ [][NextCrawl]_vars

(***************************************************************************)
(* Properties                                                              *)
(***************************************************************************)
Has(t, e) == \E k \in DOMAIN t : t[k] = e

Count(t, e) == Cardinality({k \in DOMAIN t : t[k] = e})

Terminated == pc \in {"return", "raise"}

\* control is inside the handling of one field, after the locator found it
InField == pc \in {"dispatch", "input_text", "retry_loop", "custom_select",
                   "custom_enter", "keyboard", "keyboard_poll", "scroll",
                   "typing", "upload", "track"}

AllStages == <<"keyboard", "scroll", "typing">>

\* the last Discover response was an error, empty content, or an object whose
\* unfilled_fields list is empty
LastRespEnds ==
    /\ last_resp # None
    /\ \/ last_resp[1].error
       \/ last_resp[1].empty
       \/ /\ last_resp[1].is_json
          /\ last_resp[1].kind = "object"
          /\ last_resp[1].has_key
          /\ last_resp[1].unfilled_fields = <<>>

\* C1: fill_fields_iteratively always terminates when every collaborator call
\* returns; it issues at most 25 Discover queries, it has stopped once a query
\* returned an error, empty content or an empty unfilled_fields list, and no
\* query follows the 25th round.
C1_Terminates ==
    /\ <>Terminated
    /\ [](queries <= max_rounds)
    /\ [](LastRespEnds => pc = "return")
    /\ [][round_count >= max_rounds => queries' = queries]_vars

\* C1 witness: the loop has returned through the round budget, after 25
\* queries that each carried fields
C1_Witness ==
    /\ pc = "return"
    /\ queries = max_rounds
    /\ last_resp # None
    /\ last_resp[1].unfilled_fields # <<>>

\* C2 (as claimed): no exception raised while one field of a round is handled
\* (reading the field record, the locator, a fill action, a fallback stage)
\* leaves fill_fields_iteratively.
C2_NoFieldExceptionEscapes ==
    pc = "raise" => exc \notin {"KeyError", "Locator", "Action"}

\* C3 (as claimed): no element is addressed through an index or descriptor of
\* a snapshot read before a click, type, select or navigation.
C3_NoStaleUse == ~stale_use

\* C4 (as claimed): when a Discover response repeats its predecessor's list
\* and no fill succeeded in between, the loop terminates and dispatches no
\* further round.
C4_StopsOnNoProgress == no_progress_repeat => Terminated

\* C4 (amended): such a repeat is not detected; the repeated list is run
\* through like any other and the loop returns after it only through the round
\* budget, so the budget of 25 queries is what bounds the work.
C4_BudgetBoundsNoProgress ==
    /\ queries <= max_rounds
    /\ (no_progress_repeat /\ pc = "return")
         => round_count = max_rounds /\ pos = Len(unfilled_list)

\* C4 witness: a repeated list without progress has been run through and the
\* loop has returned through the budget
C4_Witness ==
    /\ no_progress_repeat
    /\ pc = "return"
    /\ round_count = max_rounds

\* C5 (as claimed): after any malformed Discover response (error, empty
\* content, text that is no JSON, JSON that is no object, unfilled_fields
\* missing or empty) the loop has ended normally, nothing dispatched.
C5_MalformedEndsNormally ==
    (last_resp # None /\ last_resp[1] \in MalformedResponses) => pc = "return"

\* C6: track_form_changes is never invoked while the fill actions of a field
\* are still to return, and once the branch of a located field has returned,
\* with success or failure, it has been invoked exactly once, as the last
\* thing, before the next field is located or the next query made.
C6_TrackOncePerFill ==
    /\ InField => Count(trace, "track_form_changes") = 0
    /\ (pc = "for" /\ trace # <<>> /\ trace[1] = "located")
         => /\ Count(trace, "track_form_changes") = 1
            /\ trace[Len(trace)] = "track_form_changes"

\* C6 witness: a fill that failed has been followed by track_form_changes
C6_Witness ==
    /\ pc = "for"
    /\ Has(trace, "input_text_with_retry")
    /\ Has(trace, "err")
    /\ trace[Len(trace)] = "track_form_changes"

\* C7: within a round the positions of the list are handled in the order
\* returned, each at most once, whatever the locator or the fill reported.
C7_InOrderOnce ==
    /\ handled = [k \in 1..pos |-> k]
    /\ pos <= Len(unfilled_list)

\* C7 witness: the second field of a list was not located; both positions
\* have been handled once and the loop is at the end of the list
C7_Witness ==
    /\ pc = "for"
    /\ handled = <<1, 2>>
    /\ trace = <<"unlocated">>
    /\ Len(unfilled_list) = 2

\* C8: for a select field the native action comes first; the custom chain is
\* invoked if and only if the native action reported an error for this field,
\* and no fallback stage runs after a native success.
C8_FallbackIffNativeError ==
    /\ Has(trace, "custom_select_dropdown_option")
         => /\ Has(trace, "native_err")
            /\ trace[2] = "select_dropdown_option"
    /\ (Has(trace, "native_err") /\ pc # "custom_select")
         => Has(trace, "custom_select_dropdown_option")
    /\ Has(trace, "native_ok")
         => ~Has(trace, "custom_select_dropdown_option") /\ stages = <<>>
    /\ (stages # <<>> \/ pc \in {"custom_select", "custom_enter", "keyboard",
                                 "keyboard_poll", "scroll", "typing"})
         => Has(trace, "native_err")
    /\ (InField /\ pc # "dispatch" /\ Branch(field_type) = "select")
         => trace[2] = "select_dropdown_option"

\* C8 witness: the native action reported an error and the custom chain, called
\* for it, has returned
C8_Witness ==
    /\ pc = "track"
    /\ Has(trace, "native_err")
    /\ Has(trace, "custom_select_dropdown_option")
    /\ res = "ok"

\* the custom chain has returned an ActionResult to the loop
CustomReturned == pc = "track" /\ Has(trace, "custom_select_dropdown_option")

\* the stages run in the order keyboard, scroll, typing, and the stage that
\* reported success is the last one run
StagesInOrder ==
    /\ \E n \in 0..Len(AllStages) : stages = SubSeq(AllStages, 1, n)
    /\ stage_ok # "none"
         => /\ stages # <<>>
            /\ stages[Len(stages)] = stage_ok
            /\ pc \notin {"keyboard", "keyboard_poll", "scroll", "typing"}
            /\ res = "ok"
    /\ (CustomReturned /\ res = "ok") => stage_ok # "none"

\* C9 (as claimed): the stages run in the fixed order, the first success ends
\* the chain, and the chain reports failure only when all stages were run.
C9_FailureOnlyWhenExhausted ==
    /\ StagesInOrder
    /\ (CustomReturned /\ res = "err") => stages = AllStages

\* C9 (amended): the same, except that the chain also reports failure before
\* any stage, when the control could not be opened (index absent, element not
\* located, opening click raised).
C9_FailureExhaustedOrUnopened ==
    /\ StagesInOrder
    /\ (CustomReturned /\ res = "err") => stages \in {<<>>, AllStages}

\* C9 witness: every stage was run and failed, and the chain reports failure
C9_Witness ==
    /\ CustomReturned
    /\ res = "err"
    /\ stages = AllStages

\* input_text_with_retry has returned an ActionResult to its caller
RetryReturned ==
    pc = "track" /\ trace[Len(trace)] = "input_text_with_retry"

\* C10: input_text_with_retry makes at most max_retries attempts; it returns
\* success exactly when an attempt's read-back matched, makes no attempt after
\* that one, and when the element is in the index and nothing matched it
\* returns a failure outcome after exactly max_retries attempts, never raising
\* once the attempts have begun.
C10_BoundedRetry ==
    /\ tries <= max_retries
    /\ RetryReturned => (res = "ok" <=> matched)
    /\ RetryReturned => res \in {"ok", "err"}
    /\ matched => RetryReturned
    /\ (RetryReturned /\ ~matched /\ dom_element # None) => tries = max_retries
    /\ pc = "raise" => tries = 0

\* C10 witness: the second of three attempts read the text back and the call
\* returned success
C10_Witness ==
    /\ RetryReturned
    /\ res = "ok"
    /\ tries = 2
    /\ max_retries = default_max_retries

\* s without its whitespace characters
RECURSIVE NoSpace(_)
NoSpace(s) ==
    IF s = <<>> THEN <<>>
    ELSE IF IsSpace(Head(s)) THEN NoSpace(Tail(s))
    ELSE <<Head(s)>> \o NoSpace(Tail(s))

\* s is made of whitespace only
Blank(s) == \A k \in DOMAIN s : IsSpace(s[k])

\* a and b are the same text with whitespace added at their ends only
SameTrimmed(a, b) ==
    \E i \in 0..Len(a), j \in 0..Len(a), m \in 0..Len(b), n \in 0..Len(b) :
        /\ i <= j /\ m <= n
        /\ Blank(SubSeq(a, 1, i)) /\ Blank(SubSeq(a, j + 1, Len(a)))
        /\ Blank(SubSeq(b, 1, m)) /\ Blank(SubSeq(b, n + 1, Len(b)))
        /\ SubSeq(a, i + 1, j) = SubSeq(b, m + 1, n)

\* the attempt just made read the field back, and the call went on as a
\* mismatch makes it: a retry is pending, or the budget is spent and the call
\* fails
RetriesOrFails ==
    /\ res # "ok"
    /\ \/ pc = "retry_loop"
       \/ RetryReturned /\ res = "err" /\ tries = max_retries

\* C11 (as claimed): a read-back that differs from the text only by
\* whitespace, wherever the whitespace is, counts as success, and any other
\* difference leads to a retry or, with the budget spent, to failure.
C11_AnyWhitespaceIsSuccess ==
    typed_value # None
      => IF NoSpace(typed_value[1]) = NoSpace(text)
         THEN RetryReturned /\ res = "ok"
         ELSE RetriesOrFails

\* C11 (amended): a read-back that differs from the text only by whitespace at
\* its ends counts as success; any other difference, whitespace inside the
\* text included, leads to a retry or, with the budget spent, to failure.
C11_TrimmedEqualIsSuccess ==
    typed_value # None
      => IF SameTrimmed(typed_value[1], text)
         THEN RetryReturned /\ res = "ok"
         ELSE RetriesOrFails

\* C11 witness: a read-back with a trailing blank was taken as success
C11_Witness ==
    /\ RetryReturned
    /\ res = "ok"
    /\ typed_value = Some(Append(text, " "))
    /\ text = <<"J", "o">>

\* C12 (as claimed): a call repeated with the same index and text on a field
\* that holds the text returns success on its first attempt and leaves the
\* field holding the text.
C12_RepeatSucceedsAtOnce ==
    (calls = MaxCalls /\ held /\ RetryReturned)
      => /\ res = "ok"
         /\ tries = 1
         /\ el_value = text

\* the positions of sm whose text holds, in any case, one of the five words
SubmitLike(sm) ==
    {k \in DOMAIN sm :
        \E w \in {SubmitWords[n] : n \in DOMAIN SubmitWords} :
            Contains(w, Lower(sm[k].text))}

\* control has passed the scan of final_state
AfterScan == pc \in {"finally", "close_browser", "exit"} /\ final_state # None

C14_ClosedOnEveryExit ==
    pc = "exit" => browser_closed /\ (agent => context_closed)

\* fill_fields_iteratively has returned to run_job_application
FillReturned == pc = "return" \/ final_reads > 0

\* C20: with one required field unlocatable in every round, the field is
\* skipped each time; the loop returns only through the round budget, after
\* exactly 25 rounds, and an exception that leaves it is never the skipped
\* field's; after the return the element index is read for the submission
\* scan, and the run ends with an exception only if a call made after the
\* loop raised.
C20_UnlocatableExhaustsBudget ==
    /\ hidden_field # None
    /\ (pc = "for" /\ pos >= 1 /\ Some(unfilled_list[pos].id) = hidden_field)
         => trace = <<"unlocated">>
    /\ FillReturned
         => round_count = max_rounds /\ queries = max_rounds /\ exc = "none"
    /\ pc = "raise" => exc # "none"
    /\ (pc \in {"scan", "finally", "close_browser", "exit"}
          /\ round_count = max_rounds /\ exc = "none")
         => final_reads = 1
    /\ (pc = "exit" /\ FillReturned)
         => run_exc \in {"none", "final_state", "click", "context_close",
                         "browser_close"}

\* C20 witness: 25 rounds have passed, each with the hidden field skipped;
\* the loop returned, the scan was made and the run ended without exception
C20_Witness ==
    /\ hidden_field # None
    /\ pc = "exit"
    /\ round_count = max_rounds
    /\ final_reads = 1
    /\ run_exc = "none"

\* perform_login_flow is the action the agent called
LoginCalled == trace = <<"perform_login_flow">>

\* the site name as both actions normalise it
SiteKey == Lower(Strip(site_name))

\* the credentials file gives the site called no user name and password that
\* are both non-empty: no key is the site's name in any case, or the item that
\* counts for it, the last such, lacks one of the two
NoUsableCredentials ==
    \A k \in DOMAIN login_credentials_data :
        Lower(login_credentials_data[k].key) = SiteKey
          => \/ \E j \in DOMAIN login_credentials_data :
                  j > k /\ Lower(login_credentials_data[j].key) = SiteKey
             \/ login_credentials_data[k].creds.username \in {NoKey, <<>>}
             \/ login_credentials_data[k].creds.password \in {NoKey, <<>>}

\* the site called is one of the two with a flow of its own
Recognized ==
    SiteKey \in { <<"l", "i", "n", "k", "e", "d", "i", "n">>,
                  <<"i", "n", "d", "e", "e", "d">> }

\* the call has returned a failure outcome
LoginFailure ==
    /\ pc = "login_done"
    /\ Len(results) = 1
    /\ results[1].error # None
    /\ results[1].extracted_content = None

\* C15: perform_login_flow returns a failure outcome without any call on the
\* browser or the page when the credentials file has no entry for the
\* lower-cased site name or the entry lacks a non-empty user name or
\* password; for "LinkedIn" with the password missing the reason is exactly
\* "Credentials incomplete for site linkedin".
C15_NoCredentialsNoPageAction ==
    /\ (LoginCalled /\ NoUsableCredentials)
         => LoginFailure /\ page_actions = <<>>
    /\ (LoginCalled /\ login_credentials_data = CD_all(E_nopw)
          /\ site_name = <<"L", "i", "n", "k", "e", "d", "I", "n">>)
         => results[1].error
              = Some(<<"C", "r", "e", "d", "e", "n", "t", "i", "a",
                         "l", "s", " ", "i", "n", "c", "o", "m", "p",
                         "l", "e", "t", "e", " ", "f", "o", "r", " ",
                         "s", "i", "t", "e", " ", "l", "i", "n", "k",
                         "e", "d", "i", "n">>)

\* C15 witness: the call for "LinkedIn" with the password missing has returned
C15_Witness ==
    /\ LoginCalled
    /\ site_name = <<"L", "i", "n", "k", "e", "d", "I", "n">>
    /\ login_credentials_data = CD_all(E_nopw)
    /\ LoginFailure
    /\ page_actions = <<>>

\* C16 (as claimed): with complete credentials no exception of a step of
\* perform_login_flow, obtaining the page included, reaches its caller.
C16_LoginNeverRaises == pc # "login_raise"

\* the page calls of a login in the order claimed
LoginOrder ==
    <<"get_current_page", "goto", "wait_for_load_state", "fill_username",
      "fill_password", "click">>

\* the place of call a in that order
Place(a) == CHOOSE n \in DOMAIN LoginOrder : LoginOrder[n] = a

\* the calls made, without the mark of the one that raised
CallsMade ==
    IF page_actions # <<>> /\ page_actions[Len(page_actions)] = "raised"
    THEN SubSeq(page_actions, 1, Len(page_actions) - 1)
    ELSE page_actions

\* the call with name a was made and returned
Returned(a) ==
    \E k \in DOMAIN page_actions :
        /\ page_actions[k] = a
        /\ k < Len(page_actions) => page_actions[k + 1] # "raised"

\* C17: for linkedin and indeed with complete credentials the page calls come
\* in the order navigate, fill user name, fill password, click submit, each
\* at most once: the password is not filled before the user name, submit is
\* clicked at most once and only after both fills returned, and nothing
\* navigates after the first fill.
C17_LoginOrder ==
    (LoginCalled /\ Recognized)
      => /\ \A k \in DOMAIN CallsMade : CallsMade[k] # "raised"
         /\ \A i \in DOMAIN CallsMade : \A j \in DOMAIN CallsMade :
              i < j => Place(CallsMade[i]) < Place(CallsMade[j])
         /\ Has(page_actions, "fill_password") => Returned("fill_username")
         /\ Has(page_actions, "click")
              => Returned("fill_username") /\ Returned("fill_password")
         /\ (pc = "login_done" /\ results[1].error = None)
              => Returned("click")

\* C17 witness: a login that had to navigate went through all its calls
C17_Witness ==
    /\ LoginCalled
    /\ pc = "login_done"
    /\ page_actions = LoginOrder
    /\ results[1].error = None

\* the reason of the failure returned says that the site has no flow
SaysNoFlow ==
    Contains(<<"N", "o", " ", "s", "p", "e", "c", "i", "a", "l",
                 "i", "z", "e", "d", " ", "l", "o", "g", "i", "n",
                 " ", "f", "l", "o", "w">>,
             results[1].error[1])

\* C18 (as claimed): for any site that is not linkedin or indeed the call
\* returns a failure whose reason says that no specialized login flow exists,
\* and it has not navigated, filled or clicked.
C18_UnknownSiteSaysNoFlow ==
    (LoginCalled /\ ~Recognized)
      => /\ CallsMade \in {<<>>, <<"get_current_page">>}
         /\ pc = "login_done" => LoginFailure /\ SaysNoFlow

\* C18 (amended): for such a site the call never navigates, fills or clicks;
\* when it returns, it returns a failure, whose reason says that no
\* specialized login flow exists exactly when the credentials for the site are
\* complete, and is the reason of the credentials check otherwise.
C18_UnknownSiteNoFlowIfCredentials ==
    (LoginCalled /\ ~Recognized)
      => /\ CallsMade \in {<<>>, <<"get_current_page">>}
         /\ pc = "login_done"
              => /\ LoginFailure
                 /\ SaysNoFlow <=> ~NoUsableCredentials
                 /\ NoUsableCredentials => page_actions = <<>>

\* C18 witness: the call for "Acme", with complete credentials, has returned
\* the failure that says so
C18_Witness ==
    /\ LoginCalled
    /\ site_name = <<"A", "c", "m", "e">>
    /\ ~NoUsableCredentials
    /\ LoginFailure
    /\ SaysNoFlow
    /\ page_actions = <<"get_current_page">>

\* the non-empty passwords of the credentials file
Secrets ==
    {login_credentials_data[k].creds.password : k \in DOMAIN login_credentials_data}
      \ {NoKey, <<>>}

\* the text of an ActionResult the agent is given
Shown(r) ==
    (IF r.error = None THEN <<>> ELSE r.error[1])
      \o (IF r.extracted_content = None THEN <<>> ELSE r.extracted_content[1])

\* C19 (as claimed): no password of the credentials file is part of a logged
\* message or of the text of an ActionResult given to the agent.
C19_PasswordNeverShown ==
    \A pw \in Secrets :
        /\ \A k \in DOMAIN log : ~Contains(pw, log[k])
        /\ \A k \in DOMAIN results : ~Contains(pw, Shown(results[k]))

\* the entry e passes the test the locator makes for the field f
Satisfies(e, f) ==
    \/ Contains(Lower(f.id), Lower(e.xpath))
    \/ Contains(Lower(LabelOf(f)), Lower(e.text))

\* the positions of the selector map sm whose entries pass the test for f
Hits(sm, f) == {k \in DOMAIN sm : Satisfies(sm[k], f)}

\* the locator has just returned for the only field of the form
JustLocated ==
    /\ selector_map # None
    /\ pos = 1
    /\ trace \in {<<"located">>, <<"unlocated">>}

\* C21: find_highlight_index_for_field returns the index of the first entry,
\* in the iteration order of the selector map, whose xpath contains the field
\* id or whose text contains the field label, both compared without regard to
\* case, and returns None exactly when no entry passes either test
C21_LocatorFirstMatch ==
    JustLocated =>
        LET sm == selector_map[1]
            f == unfilled_list[1]
            hits == Hits(sm, f) IN
        /\ (highlight_index = None) <=> (hits = {})
        /\ hits # {} =>
              highlight_index =
                  Some(sm[CHOOSE k \in hits : \A j \in hits : k <= j].idx)

\* C21 witness: two entries pass the test for the e-mail field, the first by
\* its text in another case and the second by its xpath; the locator returned
\* the index of the first, which is the higher of the two
C21_Witness ==
    /\ JustLocated
    /\ unfilled_list = <<D_email>>
    /\ selector_map = Some(SM_form)
    /\ Cardinality(Hits(SM_form, D_email)) = 2
    /\ highlight_index = Some(8)

\* upload_resume_file was called for the field at hand and has acted
UploadActed == Has(trace, "upload_resume_file") /\ pc # "upload"

\* the candidate record has no resume path, or is_file() was false for it
NoUsablePath ==
    \/ candidate_global_data.resume_file_path = None
    \/ uploads # <<>> /\ uploads[1] = UCall("is_file", OnPath, FALSE)

\* C22: when the candidate record has no resume path, or the path names no
\* existing file, upload_resume_file makes no call on the page or on an
\* element and returns an error result; the loop goes on to
\* track_form_changes and the next field with nothing reported filled
C22_NoFileNoPageAction ==
    (UploadActed /\ NoUsablePath) =>
        /\ \A k \in DOMAIN uploads : uploads[k].on = OnPath
        /\ pc = "track" => res = "err"
        /\ pc = "raise" => exc = "Track"
        /\ pc \in {"for", "while"} =>
              trace = <<"located", "upload_resume_file", "err",
                        "track_form_changes">>
        /\ ~filled_in_round

\* C22 witness: the path of the candidate record names no file; the call
\* made the is_file test and nothing else, and the loop has gone on past
\* track_form_changes
C22_Witness ==
    /\ pc = "for"
    /\ pos = 1
    /\ candidate_global_data.resume_file_path # None
    /\ uploads = <<UCall("is_file", OnPath, FALSE)>>
    /\ trace = <<"located", "upload_resume_file", "err", "track_form_changes">>

\* the positions of the calls of uploads that assign the file to an element
Assignments == {k \in DOMAIN uploads : uploads[k].call = "set_input_files"}

\* the positions of the calls of the fallback over the page's file inputs
FallbackPart ==
    {k \in DOMAIN uploads : uploads[k].on = OnPage
                             /\ uploads[k].call = "query_selector_all"}
    \cup {k \in DOMAIN uploads : uploads[k].on \in {OnInput(n) : n \in 1..MaxInputs + 1}}

\* the positions of the calls of the direct attempt
DirectPart ==
    {k \in DOMAIN uploads : uploads[k].on \in {OnIndex(i) : i \in 1..8}}

\* the call has the page and its selector map: the attempts have begun
AttemptsBegun ==
    /\ UploadActed
    /\ \E k \in DOMAIN uploads :
          uploads[k] = UCall("get_selector_map", OnPage, TRUE)

\* C23: in upload_resume_file the direct assignment on the located index
\* comes first; the page's file inputs are tried only when the direct
\* assignment has not succeeded, in document order, and no further
\* after the first input that accepts the file, so that at most one
\* assignment succeeds in a call; when every attempt fails, the call returns
\* an error result and raises nothing
C23_UploadChainInOrder ==
    AttemptsBegun =>
        /\ \A d \in DirectPart, f \in FallbackPart : d < f
        /\ (\E d \in DirectPart \cap Assignments : uploads[d].ok)
              => FallbackPart = {}
        /\ \A k \in Assignments \cap FallbackPart :
              /\ \E n \in 1..MaxInputs + 1 :
                    /\ uploads[k].on = OnInput(n)
                    /\ n > 1 => /\ k - 1 \in Assignments
                                /\ uploads[k - 1].on = OnInput(n - 1)
                    /\ n = 1 => uploads[k - 1].call = "query_selector_all"
              /\ uploads[k].ok => k = Len(uploads)
        /\ Cardinality({k \in Assignments : uploads[k].ok}) <= 1
        /\ pc = "track" =>
              (res = "ok" <=> \E k \in Assignments : uploads[k].ok)
        /\ pc = "track" => res \in {"ok", "err"}
        /\ pc = "raise" => exc = "Track"

\* C23 witness: the direct assignment raised, the first file input of the page raised
\* too, the second accepted the file, and the call returned success
C23_Witness ==
    /\ AttemptsBegun
    /\ pc = "track"
    /\ res = "ok"
    /\ \E d \in DirectPart \cap Assignments : ~uploads[d].ok
    /\ \E k \in Assignments : uploads[k] = UCall("set_input_files", OnInput(1), FALSE)
    /\ uploads[Len(uploads)] = UCall("set_input_files", OnInput(2), TRUE)

\* the words a text field's label is searched for, in the order of the search
TextWords == <<<<"n","a","m","e">>, <<"e","m","a","i","l">>, <<"p","h","o","n","e">>, <<"a","d","d","r","e","s","s">>>>

\* the candidate data that go with the words
TextData(cand) == <<cand.name, cand.email, cand.phone, cand.address>>

\* the places of the words the label l contains, whatever its case
WordsIn(l) == {k \in DOMAIN TextWords : Contains(TextWords[k], Lower(l))}

\* input_text_with_retry was called for the field at hand and its arguments
\* are still held
InTextCall ==
    /\ Has(trace, "input_text_with_retry")
    /\ pc \in {"input_text", "retry_loop", "track"}

\* C24: the text for a text or textarea field is chosen from its label: the
\* candidate's name when the label contains "name", else the e-mail when it
\* contains "email", else the phone when it contains "phone", else the address
\* when it contains "address", all without regard to case, else the
\* placeholder; for the label "Email Address" the e-mail jane@x.com is
\* typed, and the fill returns success when the read-back of its first
\* attempt matches
C24_TextFromLabel ==
    InTextCall =>
        LET w == WordsIn(LabelOf(unfilled_list[pos])) IN
        /\ w # {} =>
              text = TextData(candidate_global_data)[
                         CHOOSE k \in w : \A j \in w : k <= j]
        /\ w = {} => text = <<"L","o","r","e","m"," ","I","p","s","u","m">>
        /\ LabelOf(unfilled_list[pos]) = <<"E","m","a","i","l"," ","A","d","d","r","e","s","s">>
              => text = <<"j","a","n","e","@","x",".","c","o","m">>
        /\ (tries = 1 /\ typed_value # None
                      /\ SameTrimmed(typed_value[1], text))
              => pc = "track" /\ res = "ok"

\* C24 witness: the field labelled "Email Address" was given jane@x.com, the
\* first attempt read the same text back and the call returned success
C24_Witness ==
    /\ InTextCall
    /\ unfilled_list[pos].label = <<"E","m","a","i","l"," ","A","d","d","r","e","s","s">>
    /\ text = candidate_global_data.email
    /\ typed_value = Some(text)
    /\ tries = 1
    /\ pc = "track"
    /\ res = "ok"

\* the native select action was called for the field at hand and the target
\* is still held
InSelectCall ==
    /\ Has(trace, "select_dropdown_option")
    /\ pc \notin {"for", "while", "raise"}

\* the label of the field at hand, lower-cased, contains the words w
LabelHas(w) == Contains(w, Lower(LabelOf(unfilled_list[pos])))

\* C25: the target of a select field is "LinkedIn" when its label contains
\* "how did you hear", else "Mobile" when it contains "phone device", else
\* "Yes", without regard to case; the custom chain that follows a failed
\* native select works on the same target, and its keyboard stage types the
\* first three characters of the target and no more: "Yes" for the label
\* "Favorite color"
C25_SelectTargetAndPrefix ==
    InSelectCall =>
        /\ LabelHas(<<"h","o","w"," ","d","i","d"," ","y","o","u"," ","h","e","a","r">>) => text = <<"L","i","n","k","e","d","I","n">>
        /\ (~LabelHas(<<"h","o","w"," ","d","i","d"," ","y","o","u"," ","h","e","a","r">>) /\ LabelHas(<<"p","h","o","n","e"," ","d","e","v","i","c","e">>))
              => text = <<"M","o","b","i","l","e">>
        /\ (~LabelHas(<<"h","o","w"," ","d","i","d"," ","y","o","u"," ","h","e","a","r">>) /\ ~LabelHas(<<"p","h","o","n","e"," ","d","e","v","i","c","e">>))
              => text = <<"Y","e","s">>
        /\ first_chars # None =>
              /\ Has(trace, "custom_select_dropdown_option")
              /\ first_chars[1] = SubSeq(text, 1, 3)
        /\ (first_chars # None /\ LabelOf(unfilled_list[pos]) = <<"F","a","v","o","r","i","t","e"," ","c","o","l","o","r">>)
              => first_chars = Some(<<"Y","e","s">>)

\* C25 witness: the native select failed for the field labelled "How did you
\* hear about us?", and the keyboard stage of the custom chain has typed
\* "Lin", the first three characters of the target "LinkedIn"
C25_Witness ==
    /\ InSelectCall
    /\ unfilled_list = <<D_hear>>
    /\ Has(trace, "native_err")
    /\ pc = "keyboard_poll"
    /\ text = <<"L","i","n","k","e","d","I","n">>
    /\ first_chars = Some(<<"L","i","n">>)

\* C26: every field is located on an element index read for it: when the
\* dispatcher is reached, no click, type, select or upload has been made
\* since the index that gave highlight_index was read, so the index is
\* newer than the fill of the field before and the track_form_changes call
\* that followed it
C26_LocatedOnFreshIndex ==
    pc = "dispatch" =>
        /\ highlight_index # None
        /\ hi_fresh
        /\ trace = <<"located">>

\* C26 witness: the second field of a list has been located after a fill of
\* the first field that reported success
C26_Witness ==
    /\ pc = "dispatch"
    /\ pos = 2
    /\ handled = <<1, 2>>
    /\ filled_in_round
    /\ hi_fresh

\* the arrow keys
Arrows == {"ArrowDown", "ArrowUp"}

\* what holds of the keys of the keyboard stage at every moment: every
\* polling iteration that came to its end made one read and pressed one key
KeysBounded ==
    /\ Len(keys) <= max_attempts
    /\ Count(keys, "ArrowDown") + Count(keys, "ArrowUp") <= max_attempts
    /\ \A k \in DOMAIN keys :
          /\ keys[k] \in Arrows \cup {"Enter"}
          /\ keys[k] = "Enter" => k = Len(keys)
    /\ pc = "keyboard_poll" => attempt = Len(keys) /\ ~Has(keys, "Enter")
    /\ Has(keys, "Enter") =>
          /\ current_text # None
          /\ current_text[1] # <<>>
          /\ Contains(Lower(text), Lower(current_text[1]))
          /\ stage_ok = "keyboard"

\* the step taken when max_attempts iterations have passed without a match
PollingGivesUp ==
    (pc = "keyboard_poll" /\ attempt = max_attempts) =>
        /\ pc' = "scroll"
        /\ stage_ok' = "none"
        /\ res' = res

\* C27: the keyboard stage reads the highlighted option at most 30 times and
\* presses at most 30 arrow keys; Enter is pressed at most once, as the last
\* key, right after a read that gave a non-empty text containing the target
\* without regard to case; after 30 iterations without such a read the
\* stage ends without Enter and the chain goes on to the scroll stage
C27_KeyboardStageBounded == []KeysBounded /\ [][PollingGivesUp]_vars

\* C27 witness: 29 reads without a match, each followed by an arrow key, and
\* a 30th read that matched and was followed by Enter
C27_Witness ==
    /\ Len(keys) = max_attempts
    /\ keys[max_attempts] = "Enter"
    /\ Count(keys, "ArrowDown") + Count(keys, "ArrowUp") = max_attempts - 1
    /\ current_text = Some(Lower(text) \o <<"!">>)
    /\ res = "ok"
    /\ pc = "track"

\* C28 (as claimed): in the keyboard stage the arrow keys pressed alternate
\* between ArrowDown and ArrowUp from one polling iteration to the next.
C28_ArrowsAlternate ==
    \A k \in DOMAIN keys :
        (k > 1 /\ keys[k] \in Arrows) => keys[k] # keys[k - 1]

\* C28 (amended): in the keyboard stage the arrow key of the first 15 polling
\* iterations is ArrowDown and that of the 15 iterations after them is
\* ArrowUp, so the key changes once, from ArrowDown to ArrowUp.
C28_DownThenUp ==
    \A k \in DOMAIN keys :
        keys[k] \in Arrows =>
            keys[k] = IF k <= 15 THEN "ArrowDown" ELSE "ArrowUp"

\* C28 witness: 30 iterations have passed without a match; the 15th key was
\* ArrowDown, like the 14th, and the 16th was ArrowUp
C28_Witness ==
    /\ pc = "keyboard_poll"
    /\ Len(keys) = 30
    /\ keys[14] = "ArrowDown"
    /\ keys[15] = "ArrowDown"
    /\ keys[16] = "ArrowUp"
    /\ keys[30] = "ArrowUp"

\* the names of the actions the dispatcher and the fills record in trace
ActionNames ==
    {"input_text_with_retry", "select_dropdown_option",
     "custom_select_dropdown_option", "click_element", "upload_resume_file"}

\* what holds of the clicks at every moment
ClickedOncePerRound ==
    /\ field_clicks <= round_count
    /\ round_count <= max_rounds
    /\ Count(trace, "click_element") <= 1
    /\ Has(trace, "click_element") =>
          /\ Branch(Lower(unfilled_list[pos].type)) = "click"
          /\ SubSeq(trace, 1, 2) = <<"located", "click_element">>
          /\ \A k \in DOMAIN trace :
                trace[k] \in ActionNames => trace[k] = "click_element"
          /\ pc = "track" => index = highlight_index[1]
          /\ tries = 0 /\ stages = <<>> /\ uploads = <<>>

\* a step of the dispatcher on a checkbox or radio field makes one click;
\* no other step makes any
ClickStep ==
    IF pc = "dispatch" /\ Branch(Lower(unfilled_list[pos].type)) = "click"
    THEN /\ field_clicks' = field_clicks + 1
         /\ pc' \in {"track", "raise"}
    ELSE field_clicks' = field_clicks

\* C29: a checkbox or radio field gets one click_element on its located
\* index each time it is dispatched, and nothing is read back or tried again
\* whatever the click reported; a field every Discover query reports again
\* is therefore clicked once in each round in which it is located, at most
\* 25 times in a run
C29_OneClickPerDispatch == []ClickedOncePerRound /\ [][ClickStep]_vars

\* C29 witness: the checkbox was reported and located in each of the 25
\* rounds and has been clicked 25 times when the loop returns
C29_Witness ==
    /\ unfilled_list = <<F_check>>
    /\ pc = "return"
    /\ round_count = max_rounds
    /\ field_clicks = max_rounds

\* the lower-cased type t is one the dispatcher has a branch for
KnownType(t) ==
    Lower(t) \in {S_text, S_textarea, S_select, S_select_one, S_checkbox,
                  S_radio, S_file}

\* the field at hand has been located and its type is not a known one
UnknownLocated ==
    /\ pos > 0
    /\ Has(trace, "located")
    /\ ~KnownType(unfilled_list[pos].type)

\* C30: for a located field whose type, lower-cased, is none of text,
\* textarea, select, select-one, checkbox, radio and file, the dispatcher
\* calls no type, click, select or upload action: nothing on the page is
\* changed for the field, and the loop goes on to track_form_changes and the
\* next field
C30_UnsupportedTypeSkipped ==
    UnknownLocated
      => /\ \A k \in DOMAIN trace : trace[k] \notin ActionNames
         /\ pc \in {"dispatch", "track", "for", "raise"}
         /\ pc = "raise" => exc = "Track"
         /\ pc # "raise" => hi_fresh /\ de_fresh
         /\ field_clicks = 0 /\ uploads = <<>> /\ keys = <<>>
         /\ tries = 0 /\ stages = <<>> /\ el_value = <<>>
         /\ ~filled_in_round
         /\ pc = "for" =>
               trace = <<"located", "unsupported", "none", "track_form_changes">>

\* C30 witness: the field of type "number" was located and skipped, and the
\* loop is past track_form_changes, ready for the next field
C30_Witness ==
    /\ unfilled_list = <<D_number>>
    /\ pc = "for"
    /\ pos = 1
    /\ trace = <<"located", "unsupported", "none", "track_form_changes">>
    /\ hi_fresh

\* C31: the final stage of custom_select_dropdown_option reports success
\* whenever its click, its typing and its Enter press raise nothing, whether
\* or not an option containing the target exists; and once the control was
\* located and clicked open, the chain reports failure only when the final
\* stage itself raised.
C31_FinalStageSucceedsUnlessRaised ==
    /\ (pc = "track" /\ final_stage # None) =>
          /\ stages[Len(stages)] = "typing"
          /\ res = IF final_stage[1].raised THEN "err" ELSE "ok"
          /\ res = "ok" <=> stage_ok = "typing"
    /\ (CustomReturned /\ stages # <<>> /\ res = "err") =>
          /\ final_stage # None
          /\ final_stage[1].raised

\* C31 witness: the chain went through every stage, the page had no option
\* containing the target, nothing raised in the final stage, and the chain
\* reported success
C31_Witness ==
    /\ CustomReturned
    /\ stages = <<"keyboard", "scroll", "typing">>
    /\ final_stage = Some([exists |-> FALSE, raised |-> FALSE])
    /\ res = "ok"

\* control is in one of the stages of the custom chain
InStages == pc \in {"keyboard", "keyboard_poll", "scroll", "typing"}

\* C32: when the index is absent from the element index, the element cannot
\* be located, or the opening click raises, custom_select_dropdown_option
\* returns a failure outcome at once: no keyboard, scroll or typing stage is
\* attempted; the stages run only on a control that was located and opened
C32_EntryFailureReturnsAtOnce ==
    /\ InStages =>
          /\ res = "none"
          /\ dom_element # None
          /\ selector_map = None
    /\ (CustomReturned /\ selector_map # None) =>
          /\ res = "err"
          /\ stages = <<>>
          /\ key_vars = <<None, <<>>, None, None>>
          /\ dom_element = None <=> ~InMap(selector_map[1], index)
    /\ (CustomReturned /\ stages = <<>>) => selector_map # None

\* C32 witness: the index given is in the element index, the control was not
\* located or its opening click raised, and the call returned the failure
\* outcome with no stage attempted
C32_Witness ==
    /\ CustomReturned
    /\ selector_map = Some(SM_form)
    /\ InMap(SM_form, index)
    /\ dom_element # None
    /\ res = "err"
    /\ stages = <<>>

\* the same with the index absent from the element index
C32_WitnessAbsent ==
    /\ CustomReturned
    /\ selector_map = Some(SM_empty)
    /\ dom_element = None
    /\ res = "err"
    /\ stages = <<>>

\* what holds of the calls of input_text_with_retry at every moment: a call
\* that found the index absent has returned the failure outcome with no
\* attempt begun, and the retry loop runs only on an element of the index
AbsentIndexNoAttempt ==
    /\ (RetryReturned /\ selector_map # None) =>
          /\ ~InMap(selector_map[1], index)
          /\ res = "err"
          /\ tries = 0
          /\ attempt = 0
          /\ dom_element = None
          /\ typed_value = None
          /\ ~matched
    /\ pc = "retry_loop" => dom_element # None /\ selector_map = None

\* a step of the action: the return on an absent index is made from the
\* entry, leaves the field as it was and invalidates nothing; an attempt that
\* read nothing back (the element was not located, or a call raised) is
\* followed by another one unless it was the last of the budget, which
\* returns the failure outcome
AbsentOrRetriedStep ==
    /\ (pc = "input_text" /\ pc' = "track") =>
          /\ selector_map' # None
          /\ res' = "err"
          /\ tries' = 0
          /\ el_value' = el_value
          /\ typed_value' = typed_value
          /\ <<hi_fresh, de_fresh>>' = <<hi_fresh, de_fresh>>
    /\ (pc = "retry_loop" /\ tries' = tries + 1 /\ typed_value' = None) =>
          IF attempt = max_retries - 1
          THEN pc' = "track" /\ res' = "err"
          ELSE pc' = "retry_loop" /\ attempt' = attempt + 1 /\ res' = "none"

\* C33: when the index is absent from the element index, input_text_with_retry
\* returns a failure outcome at once with zero attempts: nothing is cleared
\* or typed and nothing is retried; an element that is in the index and
\* cannot be located at an attempt is tried again up to the budget
C33_AbsentIndexZeroAttempts ==
    []AbsentIndexNoAttempt /\ [][AbsentOrRetriedStep]_vars

\* C33 witness: with a budget of three attempts, the call returned the
\* failure outcome on an index that the element index does not hold, with no
\* attempt begun and the field still holding what it held
C33_Witness ==
    /\ RetryReturned
    /\ max_retries = 3
    /\ selector_map = Some(SM_empty)
    /\ res = "err"
    /\ tries = 0
    /\ calls = 2
    /\ el_value = <<"J","o">>

\* the only field of the form has an empty label, or none, and the locator
\* has returned for it
UnlabelledLocated ==
    /\ selector_map # None
    /\ pos = 1
    /\ LabelOf(unfilled_list[1]) = <<>>
    /\ \/ trace \in {<<"located">>, <<"unlocated">>}
       \/ pc \in {"input_text", "custom_enter", "custom_select", "upload"}

\* C34: for a field whose label is empty or absent,
\* find_highlight_index_for_field returns the first entry of any non-empty
\* element index, whatever the field id, and the fill made for the field
\* addresses that entry
C34_UnlabelledTakesFirstEntry ==
    UnlabelledLocated =>
        LET sm == selector_map[1] IN
        /\ highlight_index = IF sm = <<>> THEN None ELSE Some(sm[1].idx)
        /\ (sm # <<>> /\ Len(trace) > 1) => index = sm[1].idx

\* C34 witness: the field has the id of the second entry and no label; the
\* locator returned the first entry, whose xpath does not hold the id, and
\* the text action was called on it
C34_Witness ==
    /\ UnlabelledLocated
    /\ unfilled_list = <<D_nolabel>>
    /\ selector_map = Some(SM_form)
    /\ ~Contains(Lower(D_nolabel.id), Lower(SM_form[1].xpath))
    /\ Contains(Lower(D_nolabel.id), Lower(SM_form[2].xpath))
    /\ pc = "input_text"
    /\ index = SM_form[1].idx

\* the field at hand was not located
Unlocated == trace # <<>> /\ trace[1] = "unlocated"

\* nothing is done for a field that was not located: no fill action is
\* called, track_form_changes is not called, and control is back at the head
\* of the for loop (or beyond it) with no highlight index and no result
UnlocatedUntouched ==
    Unlocated =>
        /\ trace = <<"unlocated">>
        /\ highlight_index = None
        /\ res = "none"
        /\ tries = 0 /\ stages = <<>>
        /\ pc \notin {"dispatch", "track", "input_text", "retry_loop",
                      "custom_select", "custom_enter", "keyboard",
                      "keyboard_poll", "scroll", "typing", "upload", "raise"}

\* the step that finds a field unlocated moves the for loop to the next
\* position and changes nothing else of the run
UnlocatedStep ==
    (pc = "for" /\ trace' = <<"unlocated">>) =>
        /\ pc' = "for"
        /\ pos' = pos + 1
        /\ UNCHANGED <<candidate_global_data, round_count, unfilled_list,
                       queries, last_resp, no_progress_repeat, filled_in_round,
                       exc, de_fresh, field_vars, key_vars, uploads,
                       field_clicks, run_vars, login_vars>>

\* C35: for a field the locator cannot find, the round makes no fill action
\* and no track_form_changes call; the only effect is that the for loop
\* moves on to the next field
C35_UnlocatedOnlyMovesOn == []UnlocatedUntouched /\ [][UnlocatedStep]_vars

\* C35 witness: the first field of a list of two was not located, nothing
\* was done for it, and the loop stands before the second field
C35_Witness ==
    /\ pc = "for"
    /\ Len(unfilled_list) = 2
    /\ pos = 1
    /\ handled = <<1>>
    /\ trace = <<"unlocated">>
    /\ highlight_index = None
    /\ ~filled_in_round

\* the ways fill_fields_iteratively returns
FillEnds == {"discover_error", "no_content", "bad_json", "no_fields", "exhausted"}

\* the step made when fill_fields_iteratively has returned reads the final
\* element index and goes on to the scan, in whatever way the loop was left
ScanAfterAnyEnd ==
    pc = "return" =>
        /\ fill_end' = FillEnd(last_resp[1])
        /\ fill_end' = "exhausted" <=> (round_count = max_rounds /\ unfilled_list # <<>>
                                          /\ DiscoverOutcome(last_resp[1]) = "fields")
        /\ final_reads' = 1
        /\ \/ pc' = "scan" /\ final_state' # None
           \/ pc' = "finally" /\ run_exc' = "final_state"

\* once the scan is over, a submit-like element of the final element index
\* has been clicked, in whatever way the loop was left
ClickedAfterAnyEnd ==
    /\ fill_end \in FillEnds \cup {"none"}
    /\ (fill_end # "none" /\ AfterScan /\ SubmitLike(final_state[1]) # {}) =>
          clicks = <<SubmitIndex(final_state[1])[1]>>
    /\ clicks # <<>> => fill_end # "none"

C36_WitnessError ==
    /\ pc = "exit"
    /\ fill_end = "discover_error"
    /\ round_count = 1
    /\ clicks = <<2>>

\* process_application is over: it returned, or the exception of the
\* 'failed' update left it
WorkerOver == pc \in {"w_done", "w_raised"}

\* run_job_application was called and returned without raising
RunReturned == browser_closed /\ run_exc = "none"

\* C37 (as claimed): in process_application the status goes from 'processing'
\* to exactly one terminal value, 'completed' if and only if
\* run_job_application returned without raising and 'failed' otherwise, and a
\* terminal status is never followed by 'processing'.
C37_StatusFollowsRun ==
    WorkerOver =>
        /\ status_log \in {<<"processing", "completed">>, <<"processing", "failed">>}
        /\ status_log[2] = "completed" <=> RunReturned

\* run_job_application has been called by the worker and is not yet left
\* behind
InWorkerRun ==
    pc \notin {"w_begin", "w_profile", "w_complete", "w_except", "w_done",
               "w_raised"}

\* what holds at every moment of a worker run on a form whose file field is
\* reported by every query: the candidate data has no resume path, no upload
\* has reported success, and the loop has returned only through the budget
NoPathNoUpload ==
    /\ InWorkerRun => candidate_global_data.resume_file_path = None
    /\ Has(trace, "upload_resume_file") => res # "ok"
    /\ FillReturned =>
          /\ round_count = max_rounds
          /\ queries = max_rounds
          /\ fill_end \in {"none", "exhausted"}

\* the steps of the worker run: the profile is built from the cv with no
\* resume path although a URL of the CV file was given, and every call of
\* upload_resume_file returns the error at once, with nothing on the page
\* touched and nothing raised
NoPathStep ==
    /\ (pc = "w_profile" /\ pc' = "construct") =>
          /\ cv_file_url # <<>>
          /\ candidate_global_data' =
                [name |-> cv.personalInfo[1].name[1],
                 email |-> cv.personalInfo[1].email[1],
                 phone |-> cv.personalInfo[1].phone[1],
                 address |-> cv.personalInfo[1].location[1],
                 resume_file_path |-> None]
    /\ pc = "upload" =>
          /\ pc' = "track"
          /\ res' = "err"
          /\ UNCHANGED <<hi_fresh, de_fresh, filled_in_round>>

\* C38: the worker builds the candidate profile without a resume_file_path
\* (it passes a cv_file_url only), so every upload_resume_file call of the
\* run fails on the missing path and a required file field is never filled;
\* while the queries keep reporting the field, the loop returns only when the
\* 25 rounds are spent
C38_WorkerNeverUploads == []NoPathNoUpload /\ [][NoPathStep]_vars

\* C38 witness: in round 25 of a worker run the file field, still reported,
\* was located and upload_resume_file returned the error
C38_Witness ==
    /\ status_log = <<"processing">>
    /\ round_count = max_rounds
    /\ unfilled_list = <<F_file>>
    /\ pc = "track"
    /\ trace = <<"located", "upload_resume_file">>
    /\ res = "err"
    /\ candidate_global_data.resume_file_path = None

\* the pages of the crawl result that are not skipped
Eligible == {k \in DOMAIN crawl_status : ~Skipped(crawl_status[k])}

\* what holds of the 'jobs' collection at every moment: one document per id,
\* each id the digest of the document's URL, and every document either
\* there before the crawl or the job of a page that has a URL and no status
\* code 404, stored by one of the calls made
StoredJobsFromPages ==
    /\ \A d \in jobs, e \in jobs : d.job_id = e.job_id => d = e
    /\ \A d \in jobs :
          /\ d.job_id = generate_job_id(d.url)
          /\ \/ d = OldJob
             \/ \E k \in Eligible, src \in SourceUrls :
                   d = JobData(crawl_status[k], src)

\* a step writes at most one document, under an id that had none, and leaves
\* every document there is as it is
NeverOverwrites ==
    /\ jobs \subseteq jobs'
    /\ Cardinality(jobs' \ jobs) <= 1
    /\ \A d \in jobs' \ jobs :
          /\ ~Exists(jobs, d.job_id)
          /\ pc = "crawl_for"
          /\ d = JobData(crawl_status[page_no + 1], source_url)

\* a call of process_crawl_results on the crawl result has ended
SomeCallEnded == passes >= 2 \/ (passes = 1 /\ pc = "crawl_idle")

====
